---- MODULE Spec2Model ----
(***************************************************************************)
(* Model of embeddenator-io.                                               *)
(*                                                                         *)
(* Part 1: the binary envelope (src/src/io/envelope.rs): wrap_or_legacy    *)
(* and unwrap_auto, the header layout, the codec dispatch and the cargo    *)
(* features that compile the codecs in or out.                             *)
(*                                                                         *)
(* Part 2: the streaming adapters and whole-stream operations              *)
(* (src/src/io/stream_compress.rs), copy_buffered (src/src/io/buffer.rs)   *)
(* and StreamWriter (src/src/io/stream.rs), over sources and sinks that    *)
(* may return an error.                                                    *)
(*                                                                         *)
(* Bytes are integers 0..255, byte buffers are sequences of bytes.         *)
(* io::Result<Vec<u8>> is a record [ok, val, err].                         *)
(* A u64 / usize is kept as four 16-bit limbs, least significant first,    *)
(* so that all eight bytes of the length field take part in comparisons.   *)
(***************************************************************************)
EXTENDS Integers, Sequences, FiniteSets, TLC

VARIABLES
    build,      \* cargo features of this build, and the linked zstd's level policy
    pc,         \* "idle" | "wrapped" | "unwrapped": what the caller did last
    args,       \* arguments of the last wrap_or_legacy call
    stored,     \* the io::Result of that call; its bytes are the envelope at rest
    origin,     \* where the bytes given to unwrap_auto come from
    expected,   \* expected_kind of the last unwrap_auto call
    data,       \* data of the last unwrap_auto call
    result,     \* the io::Result of the last unwrap_auto call
    \* Part 2, the streaming adapters and the whole-stream operations
    call,       \* which operation the caller runs: "idle", "session", "reading",
                \* "stream_compress", "stream_decompress", "copy_buffered", "writer"
    spc,        \* where that operation stands: "open", "loop", "finish", "eof", "past",
                \* "flushed", "done"
    scodec,     \* the codec argument
    bufsize,    \* the buffer_size argument
    plain,      \* the bytes the caller has written to the compressor or the
                \* StreamWriter so far, or has read from the decompressor so far
    reader,     \* the byte source: what is left to read, and a pending fault
    comp,       \* the StreamCompressor (CompressorInner and the codec's buffer)
    dec,        \* the StreamDecompressor (DecompressorInner and decoded bytes)
    sink,       \* the byte sink: its bytes, whether a flush followed the last write
    total,      \* total_written / total of the running loop
    sret,       \* what the last call returned
    lastread,   \* what the last StreamDecompressor::read returned
    flog,       \* the fault the source or sink raised during the current call
    input,      \* the bytes the source held when the call began
    nflush,     \* how many times the caller flushed the compressor mid-stream
    first,      \* the successful stream_compress whose output is now the source
    wbuf,       \* StreamWriter::buffer
    \* Part 3
    cs,         \* a chunked read: the source, the BufReader, the chunks delivered
    conc,       \* the threads of the concurrent file test and the files
    prof        \* the last CompressionProfiler::for_path call

vars == <<build, pc, args, stored, origin, expected, data, result>>

ovars == <<cs, conc, prof>>

svars == <<call, spc, scodec, bufsize, plain, reader, comp, dec, sink, total, sret,
           lastread, flog, input, nflush, first, wbuf, ovars>>

allvars == <<vars, svars>>

(***************************************************************************)
(* Bounds of the model.                                                    *)
(***************************************************************************)
MaxLen == 2

\* Byte values the short payloads are built from.
ByteVals == {0, 200}

RECURSIVE SeqsUpTo(_)
SeqsUpTo(n) ==
    IF n = 0 THEN {<<>>}
    ELSE LET shorter == SeqsUpTo(n - 1)
         IN  shorter \cup {Append(s, b) : s \in {t \in shorter : Len(t) = n - 1}, b \in ByteVals}

ShortSeqs == SeqsUpTo(MaxLen)

(***************************************************************************)
(* io::Result                                                              *)
(***************************************************************************)
Ok(bytes) == [ok |-> TRUE, val |-> bytes, err |-> ""]
Err(msg) == [ok |-> FALSE, val |-> <<>>, err |-> msg]
NoResult == [ok |-> FALSE, val |-> <<>>, err |-> "no call"]

(***************************************************************************)
(* Constants and enums of envelope.rs                                      *)
(***************************************************************************)
MAGIC == <<69, 68, 78, 49>>
HEADER_LEN == 16

PayloadKinds == {"EngramBincode", "SubEngramBincode"}
CompressionCodecs == {"None", "Zstd", "Lz4"}

\* a tag that does not tell the kinds apart
PayloadKind_as_u8_constant(k) == 1

\* `kind as u8`
PayloadKind_as_u8(k) == IF k = "EngramBincode" THEN 1 ELSE 2

\* Option<PayloadKind>: <<>> is None, <<k>> is Some(k)
PayloadKind_from_u8(v) ==
    CASE v = 1 -> <<"EngramBincode">>
      [] v = 2 -> <<"SubEngramBincode">>
      [] OTHER -> <<>>

\* `codec as u8`
CompressionCodec_as_u8(c) ==
    CASE c = "None" -> 0
      [] c = "Zstd" -> 1
      [] c = "Lz4" -> 2

\* a from_u8 that reads every unknown tag as None
CompressionCodec_from_u8_lenient(v) ==
    CASE v = 1 -> <<"Zstd">>
      [] v = 2 -> <<"Lz4">>
      [] OTHER -> <<"None">>

CompressionCodec_from_u8(v) ==
    CASE v = 0 -> <<"None">>
      [] v = 1 -> <<"Zstd">>
      [] v = 2 -> <<"Lz4">>
      [] OTHER -> <<>>

(***************************************************************************)
(* Fixed-width integers                                                    *)
(***************************************************************************)
USIZE_BITS == 64

\* `n as u64` for a length n (n < 2^31 in every model run)
usize_as_u64(n) == <<n % 65536, n \div 65536, 0, 0>>

\* u64::to_le_bytes
u64_to_le_bytes(u) ==
    [j \in 1..8 |-> IF j % 2 = 1 THEN u[(j + 1) \div 2] % 256 ELSE u[j \div 2] \div 256]

\* u64::from_le_bytes
u64_from_le_bytes(b) == [i \in 1..4 |-> b[2 * i - 1] + 256 * b[2 * i]]

\* the cast on a target with 32-bit pointers
u64_as_usize_32(u) == [i \in 1..4 |-> IF i <= 2 THEN u[i] ELSE 0]

\* `x as usize`: keeps the low USIZE_BITS bits
u64_as_usize(u) == [i \in 1..4 |-> IF 16 * i <= USIZE_BITS THEN u[i] ELSE 0]

\* 0u16.to_le_bytes()
u16_zero_le_bytes == <<0, 0>>

(***************************************************************************)
(* The codec libraries.  The crates are not part of the repository; they   *)
(* are modelled as store-only codecs: a frame that carries the input       *)
(* verbatim behind a header, and a decoder that accepts exactly the frames *)
(* of that shape and rejects every other input.                            *)
(***************************************************************************)
ZSTD_FRAME_MAGIC == <<40, 181, 47, 253>>

\* levels the zstd library documents as in range
ZstdLevelRange == (-131072)..22

\* Option<i32>::unwrap_or(0); <<>> is None, <<l>> is Some(l)
level_unwrap_or_0(level) == IF level = <<>> THEN 0 ELSE level[1]

\* zstd::stream::encode_all(Cursor::new(raw), lvl).map_err(io::Error::other)
zstd_encode_all(raw, lvl) ==
    IF build.strict_level /\ lvl \notin ZstdLevelRange
    THEN Err("zstd: compression level out of range")
    ELSE Ok(ZSTD_FRAME_MAGIC \o <<Len(raw) % 256>> \o raw)

\* zstd::stream::decode_all(Cursor::new(payload)).map_err(io::Error::other)
zstd_decode_all(payload) ==
    IF payload = <<>> THEN Ok(<<>>)
    ELSE IF /\ Len(payload) >= 5
            /\ SubSeq(payload, 1, 4) = ZSTD_FRAME_MAGIC
            /\ payload[5] = (Len(payload) - 5) % 256
         THEN Ok(SubSeq(payload, 6, Len(payload)))
         ELSE Err("zstd: invalid frame")

\* the u32 little-endian size prefix of lz4_flex
u32_to_le_bytes(n) == SubSeq(u64_to_le_bytes(usize_as_u64(n)), 1, 4)

\* an LZ4 block holding one literal run and no match
lz4_literal_block(raw) ==
    IF Len(raw) < 15 THEN <<Len(raw) * 16>> \o raw
    ELSE <<240, (Len(raw) - 15) % 255>> \o raw

\* lz4_flex::compress_prepend_size(raw)
lz4_compress_prepend_size(raw) == u32_to_le_bytes(Len(raw)) \o lz4_literal_block(raw)

\* lz4_flex::decompress_size_prepended(payload).map_err(io::Error::other)
lz4_decompress_size_prepended(payload) ==
    IF Len(payload) < 5 THEN Err("lz4: input too short")
    ELSE LET block == SubSeq(payload, 5, Len(payload))
             lits == IF block[1] = 240 /\ Len(block) >= 2
                     THEN SubSeq(block, 3, Len(block))
                     ELSE SubSeq(block, 2, Len(block))
         IN  IF /\ block = lz4_literal_block(lits)
                /\ SubSeq(payload, 1, 4) = u32_to_le_bytes(Len(lits))
             THEN Ok(lits)
             ELSE Err("lz4: invalid block")

(***************************************************************************)
(* envelope.rs: codec dispatch, with the cfg(feature) branches             *)
(***************************************************************************)
\* a compress_zstd that stores the input when the feature is off
compress_zstd_fallback(raw, level) ==
    IF build.zstd
    THEN zstd_encode_all(raw, level_unwrap_or_0(level))
    ELSE Ok(raw)

compress_zstd(raw, level) ==
    IF build.zstd
    THEN zstd_encode_all(raw, level_unwrap_or_0(level))
    ELSE Err("zstd compression support not enabled (enable feature compression-zstd)")

decompress_zstd(payload) ==
    IF build.zstd
    THEN zstd_decode_all(payload)
    ELSE Err("zstd decompression support not enabled (enable feature compression-zstd)")

compress_lz4(raw) ==
    IF build.lz4
    THEN Ok(lz4_compress_prepend_size(raw))
    ELSE Err("lz4 compression support not enabled (enable feature compression-lz4)")

decompress_lz4(payload) ==
    IF build.lz4
    THEN lz4_decompress_size_prepended(payload)
    ELSE Err("lz4 decompression support not enabled (enable feature compression-lz4)")

compress(codec, raw, level) ==
    CASE codec = "None" -> Ok(raw)
      [] codec = "Zstd" -> compress_zstd(raw, level)
      [] codec = "Lz4" -> compress_lz4(raw)

\* a decompress whose Lz4 arm calls the zstd decoder
decompress_lz4_as_zstd(codec, payload) ==
    CASE codec = "None" -> Ok(payload)
      [] codec = "Zstd" -> decompress_zstd(payload)
      [] codec = "Lz4" -> decompress_zstd(payload)

decompress(codec, payload) ==
    CASE codec = "None" -> Ok(payload)
      [] codec = "Zstd" -> decompress_zstd(payload)
      [] codec = "Lz4" -> decompress_lz4(payload)

(***************************************************************************)
(* envelope.rs: wrap_or_legacy and unwrap_auto                             *)
(***************************************************************************)
\* a header that records the length of the compressed bytes
envelope_bytes_compressed_len(kind, codec, raw, compressed) ==
    MAGIC
    \o <<PayloadKind_as_u8(kind)>>
    \o <<CompressionCodec_as_u8(codec)>>
    \o u16_zero_le_bytes
    \o u64_to_le_bytes(usize_as_u64(Len(compressed)))
    \o compressed

\* lines 64..72: the header, then the compressed bytes
envelope_bytes(kind, codec, raw, compressed) ==
    MAGIC
    \o <<PayloadKind_as_u8(kind)>>
    \o <<CompressionCodec_as_u8(codec)>>
    \o u16_zero_le_bytes
    \o u64_to_le_bytes(usize_as_u64(Len(raw)))
    \o compressed

\* a wrap_or_legacy without the early return for codec None: it frames always
wrap_or_legacy_always_framed(kind, opts, raw) ==
    LET compressed == compress(opts.codec, raw, opts.level)
    IN  IF ~compressed.ok THEN compressed
        ELSE Ok(envelope_bytes(kind, opts.codec, raw, compressed.val))

wrap_or_legacy(kind, opts, raw) ==
    IF opts.codec = "None" THEN Ok(raw)
    ELSE LET compressed == compress(opts.codec, raw, opts.level)
         IN  IF ~compressed.ok THEN compressed
             ELSE Ok(envelope_bytes(kind, opts.codec, raw, compressed.val))

\* an unwrap_framed that looks at the codec byte before the kind byte
unwrap_framed_codec_first(expected_kind, d) ==
    LET kind == PayloadKind_from_u8(d[5])
        codec == CompressionCodec_from_u8(d[6])
        uncompressed_len == u64_as_usize(u64_from_le_bytes(SubSeq(d, 9, 16)))
        payload == SubSeq(d, HEADER_LEN + 1, Len(d))
        decoded == IF codec[1] = "None" THEN Ok(payload)
                   ELSE decompress(codec[1], payload)
    IN  IF codec = <<>> THEN Err("unknown envelope compression codec")
        ELSE IF kind = <<>> THEN Err("unknown envelope payload kind")
        ELSE IF kind[1] # expected_kind THEN Err("unexpected envelope payload kind")
        ELSE IF ~decoded.ok THEN decoded
        ELSE IF usize_as_u64(Len(decoded.val)) # uncompressed_len
             THEN Err("envelope size mismatch")
        ELSE decoded

\* an unwrap_framed that refuses reserved bytes other than zero
unwrap_framed_reserved_checked(expected_kind, d) ==
    LET kind == PayloadKind_from_u8(d[5])
        codec == CompressionCodec_from_u8(d[6])
        uncompressed_len == u64_as_usize(u64_from_le_bytes(SubSeq(d, 9, 16)))
        payload == SubSeq(d, HEADER_LEN + 1, Len(d))
        decoded == IF codec[1] = "None" THEN Ok(payload)
                   ELSE decompress(codec[1], payload)
    IN  IF kind = <<>> THEN Err("unknown envelope payload kind")
        ELSE IF kind[1] # expected_kind THEN Err("unexpected envelope payload kind")
        ELSE IF codec = <<>> THEN Err("unknown envelope compression codec")
        ELSE IF SubSeq(d, 7, 8) # <<0, 0>> THEN Err("reserved bytes are not zero")
        ELSE IF ~decoded.ok THEN decoded
        ELSE IF usize_as_u64(Len(decoded.val)) # uncompressed_len
             THEN Err("envelope size mismatch")
        ELSE decoded

\* lines 80..98: d has at least HEADER_LEN bytes and starts with MAGIC
unwrap_framed(expected_kind, d) ==
    LET kind == PayloadKind_from_u8(d[5])
        codec == CompressionCodec_from_u8(d[6])
        uncompressed_len == u64_as_usize(u64_from_le_bytes(SubSeq(d, 9, 16)))
        payload == SubSeq(d, HEADER_LEN + 1, Len(d))
        decoded == IF codec[1] = "None" THEN Ok(payload)
                   ELSE decompress(codec[1], payload)
    IN  IF kind = <<>> THEN Err("unknown envelope payload kind")
        ELSE IF kind[1] # expected_kind THEN Err("unexpected envelope payload kind")
        ELSE IF codec = <<>> THEN Err("unknown envelope compression codec")
        ELSE IF ~decoded.ok THEN decoded
        ELSE IF usize_as_u64(Len(decoded.val)) # uncompressed_len
             THEN Err("envelope size mismatch")
        ELSE decoded

\* an unwrap_auto that refuses inputs shorter than a header
unwrap_auto_short_is_error(expected_kind, d) ==
    IF Len(d) < HEADER_LEN THEN Err("envelope too short")
    ELSE IF SubSeq(d, 1, 4) # MAGIC THEN Ok(d)
    ELSE unwrap_framed(expected_kind, d)

\* an unwrap_auto that refuses inputs of header size without the magic
unwrap_auto_bad_magic_is_error(expected_kind, d) ==
    IF Len(d) < HEADER_LEN THEN Ok(d)
    ELSE IF SubSeq(d, 1, 4) # MAGIC THEN Err("bad envelope magic")
    ELSE unwrap_framed(expected_kind, d)

\* an unwrap_auto whose length test is `<=`: a bare header is legacy
unwrap_auto_le(expected_kind, d) ==
    IF Len(d) <= HEADER_LEN \/ SubSeq(d, 1, 4) # MAGIC THEN Ok(d)
    ELSE unwrap_framed(expected_kind, d)

unwrap_auto(expected_kind, d) ==
    IF Len(d) < HEADER_LEN \/ SubSeq(d, 1, 4) # MAGIC THEN Ok(d)
    ELSE unwrap_framed(expected_kind, d)

(***************************************************************************)
(* Inputs the callers are given                                            *)
(***************************************************************************)
\* Option<i32> levels: None, two levels in zstd's range, one above it
Levels == {<<>>, <<3>>, <<22>>, <<23>>}

BinaryWriteOptions == [codec : CompressionCodecs, level : Levels]

\* 8-byte length fields: the small lengths, 256, and lengths with a high byte set
SmallLengthFields == {u64_to_le_bytes(usize_as_u64(n)) : n \in 0..(MaxLen + 1)}
LengthFields ==
    SmallLengthFields
    \cup {u64_to_le_bytes(usize_as_u64(256))}
    \cup {[u64_to_le_bytes(usize_as_u64(n)) EXCEPT ![5] = 1] : n \in 0..1}

\* payloads behind a header: short byte strings and the codec frames of them
FramePayloads ==
    ShortSeqs
    \cup {ZSTD_FRAME_MAGIC \o <<Len(s) % 256>> \o s : s \in ShortSeqs}
    \cup {lz4_compress_prepend_size(s) : s \in ShortSeqs}

HeaderBytes == 0..3
ReservedFields == {<<0, 0>>, <<1, 0>>, <<0, 255>>}
FrameHeads == {MAGIC, <<69, 68, 78, 50>>}

Frame(head, kb, cb, res, field, payload) == head \o <<kb, cb>> \o res \o field \o payload

\* byte strings of 16 bytes or more, with every header field varied
FramedInputs ==
    {Frame(h, kb, cb, res, f, p) :
        h \in FrameHeads, kb \in HeaderBytes, cb \in HeaderBytes,
        res \in ReservedFields, f \in LengthFields, p \in FramePayloads}

\* the same cut to 15 bytes: one byte short of a header
TruncatedInputs == {SubSeq(d, 1, HEADER_LEN - 1) : d \in FramedInputs}

\* what unwrap_auto may be handed by a caller that did not call wrap_or_legacy
ForeignInputs == ShortSeqs \cup TruncatedInputs \cup FramedInputs

\* raw payloads that happen to look like an envelope
CollidingRaws ==
    {Frame(MAGIC, kb, cb, <<0, 0>>, f, p) :
        kb \in {1, 3}, cb \in {0, 1},
        f \in {u64_to_le_bytes(usize_as_u64(n)) : n \in 0..1}, p \in {<<>>, <<0>>}}

RawInputs == ShortSeqs \cup CollidingRaws

(***************************************************************************)
(* Values of the streaming part: io::Error, io::Result, sources and sinks  *)
(***************************************************************************)
\* io::Error: its ErrorKind, its message, and whether it is an io::Error
\* built around another error value
NoErr == [kind |-> "-", msg |-> "-", wrapped |-> FALSE]
IoError(kind, msg) == [kind |-> kind, msg |-> msg, wrapped |-> FALSE]

\* io::Error::other(e) around an error value e
io_Error_other(e) == [kind |-> "Other", msg |-> e.msg, wrapped |-> TRUE]

\* io::Result<u64>, io::Result<()> (n is 0), io::Result<W>
CallOk(n) == [ok |-> TRUE, n |-> n, err |-> NoErr]
CallErr(e) == [ok |-> FALSE, n |-> 0, err |-> e]
NoCall == [ok |-> FALSE, n |-> 0, err |-> IoError("-", "no call")]

\* io::Result<usize> of a read, with the bytes it put into the buffer
ReadOk(bytes) == [ok |-> TRUE, val |-> bytes, err |-> NoErr]
ReadErr(e) == [ok |-> FALSE, val |-> <<>>, err |-> e]
NoRead == [ok |-> FALSE, val |-> <<>>, err |-> IoError("-", "no call")]

\* R: Read over a finite byte string; fault is the error its next read returns
Source(bytes) == [data |-> bytes, fault |-> NoErr]

\* W: Write; flushed tells whether a flush was issued after the last write
EmptySink == [bytes |-> <<>>, flushed |-> FALSE, fault |-> NoErr]

NoCompressor == [inner |-> "-", pending |-> <<>>, started |-> FALSE]
NoDecompressor == [inner |-> "-", out |-> <<>>, inframe |-> FALSE]

\* no earlier call feeds this one
NoFirst == [call |-> "-", bufsize |-> 0, input |-> <<>>, ret |-> NoCall]

\* no chunked read, no threads, no for_path call
NoChunked == [on |-> FALSE]
NoThreads == [on |-> FALSE]
NoProfile == [on |-> FALSE]

\* no streaming operation is in use
StreamIdle ==
    /\ call = "idle"
    /\ spc = "done"
    /\ scodec = "-"
    /\ bufsize = 0
    /\ plain = <<>>
    /\ reader = Source(<<>>)
    /\ comp = NoCompressor
    /\ dec = NoDecompressor
    /\ sink = EmptySink
    /\ total = 0
    /\ sret = NoCall
    /\ lastread = NoRead
    /\ flog = NoErr
    /\ input = <<>>
    /\ nflush = 0
    /\ first = NoFirst
    /\ wbuf = <<>>
    /\ cs = NoChunked
    /\ conc = NoThreads
    /\ prof = NoProfile

(***************************************************************************)
(* The state machine.  Both functions are pure, so a run is one use of the *)
(* envelope: a caller wraps a payload, the envelope rests in storage       *)
(* (where its length field may get damaged) and a caller unwraps it; or a  *)
(* caller unwraps bytes that were never wrapped.                           *)
(***************************************************************************)
NoArgs == [kind |-> "-", opts |-> [codec |-> "-", level |-> <<>>], raw |-> <<>>]

Init ==
    /\ build \in [zstd : BOOLEAN, lz4 : BOOLEAN, strict_level : BOOLEAN]
    /\ pc = "idle"
    /\ args = NoArgs
    /\ stored = NoResult
    /\ origin = "none"
    /\ expected = "-"
    /\ data = <<>>
    /\ result = NoResult
    /\ StreamIdle

\* wrap_or_legacy(kind, opts, raw)
Wrap(kind, opts, raw) ==
    /\ pc = "idle"
    /\ pc' = "wrapped"
    /\ args' = [kind |-> kind, opts |-> opts, raw |-> raw]
    /\ stored' = wrap_or_legacy(kind, opts, raw)
    /\ origin' = "none"
    /\ expected' = "-"
    /\ data' = <<>>
    /\ result' = NoResult
    /\ UNCHANGED <<build, svars>>

\* unwrap_auto(expected_kind, &wrapped) on what wrap_or_legacy returned
Unwrap(expected_kind) ==
    /\ pc = "wrapped"
    /\ stored.ok
    /\ pc' = "unwrapped"
    /\ origin' = IF origin = "none" THEN "wrapped" ELSE origin
    /\ expected' = expected_kind
    /\ data' = stored.val
    /\ result' = unwrap_auto(expected_kind, stored.val)
    /\ UNCHANGED <<build, args, stored, svars>>

\* one byte of the declared-length field (bytes 8..16) of a framed envelope
\* is overwritten while the envelope is at rest
TamperLength(i, v) ==
    /\ pc = "wrapped"
    /\ stored.ok
    /\ args.opts.codec # "None"
    /\ origin = "none"
    /\ stored.val[8 + i] # v
    /\ stored' = [stored EXCEPT !.val[8 + i] = v]
    /\ origin' = "tampered"
    /\ UNCHANGED <<build, pc, args, expected, data, result, svars>>

\* unwrap_auto(expected_kind, d) on bytes that come from elsewhere
UnwrapForeign(expected_kind, d) ==
    /\ pc = "idle"
    /\ pc' = "unwrapped"
    /\ args' = NoArgs
    /\ stored' = NoResult
    /\ origin' = "foreign"
    /\ expected' = expected_kind
    /\ data' = d
    /\ result' = unwrap_auto(expected_kind, d)
    /\ UNCHANGED <<build, svars>>

\* the guards on pc stand before the quantifiers so that the input sets are
\* enumerated only where the call can happen
Next ==
    \/ /\ pc = "idle"
       /\ \E kind \in PayloadKinds, opts \in BinaryWriteOptions, raw \in RawInputs :
            Wrap(kind, opts, raw)
    \/ /\ pc = "wrapped"
       /\ \E expected_kind \in PayloadKinds : Unwrap(expected_kind)
    \/ /\ pc = "wrapped"
       /\ \E i \in 1..8, v \in {0, 1, 255} : TamperLength(i, v)
    \/ /\ pc = "idle"
       /\ \E expected_kind \in PayloadKinds, d \in ForeignInputs :
            UnwrapForeign(expected_kind, d)

Spec == Init /\ [][Next]_allvars

(***************************************************************************)
(* Properties of the envelope                                              *)
(***************************************************************************)
EDN1 == <<69, 68, 78, 49>>

\* d has the size of a header at least and starts with the magic
LooksFramed(d) == Len(d) >= 16 /\ SubSeq(d, 1, 4) = EDN1

\* the codec is compiled into this build
CodecEnabled(codec) ==
    \/ codec = "Zstd" /\ build.zstd
    \/ codec = "Lz4" /\ build.lz4

\* the level is one the codec accepts (lz4 takes no level)
LevelValid(codec, level) ==
    codec = "Zstd" => level_unwrap_or_0(level) \in ZstdLevelRange

\* unwrap_auto has just been applied to the untouched output of wrap_or_legacy
RoundTripDone == pc = "unwrapped" /\ origin = "wrapped"

\* C1, as stated: for every byte sequence b and kind k,
\* unwrap_auto(k, wrap_or_legacy(k, {None, any level}, b)) = Ok(b).
C1_RoundTripNoCompressionAnyInput ==
    (RoundTripDone /\ args.opts.codec = "None" /\ expected = args.kind)
        => result = Ok(args.raw)

\* C1, amended: the round trip without compression returns Ok(b) for every b
\* (the empty one included) that is shorter than 16 bytes or does not start
\* with the magic "EDN1".
C1_RoundTripNoCompression ==
    (/\ RoundTripDone
     /\ args.opts.codec = "None"
     /\ expected = args.kind
     /\ ~LooksFramed(args.raw))
        => result = Ok(args.raw)

C1_Witness ==
    /\ RoundTripDone
    /\ args.opts.codec = "None"
    /\ expected = args.kind
    /\ Len(args.raw) = MaxLen
    /\ result = Ok(args.raw)

\* C2: wrap_or_legacy with codec None never fails and returns exactly the
\* input bytes, whatever the kind and the level are.
C2_NonePassthrough ==
    (pc # "idle" /\ origin \in {"none", "wrapped"} /\ args.opts.codec = "None")
        => stored = Ok(args.raw)

C2_Witness ==
    /\ pc = "wrapped"
    /\ args.opts = [codec |-> "None", level |-> <<23>>]
    /\ args.kind = "SubEngramBincode"
    /\ LooksFramed(args.raw)
    /\ stored = Ok(args.raw)

\* C3: with an enabled codec (Zstd or Lz4) and a valid level wrap_or_legacy
\* succeeds and unwrap_auto with the same kind returns Ok(b), for every b.
C3_RoundTripCompressed ==
    (/\ args.opts.codec \in {"Zstd", "Lz4"}
     /\ CodecEnabled(args.opts.codec)
     /\ LevelValid(args.opts.codec, args.opts.level))
        => /\ (pc = "wrapped" /\ origin = "none") => stored.ok
           /\ (RoundTripDone /\ expected = args.kind) => result = Ok(args.raw)

C3_Witness ==
    /\ RoundTripDone
    /\ args.opts.codec = "Lz4"
    /\ expected = args.kind
    /\ LooksFramed(args.raw)
    /\ result = Ok(args.raw)

\* C4: unwrap_auto returns Ok(b), b unchanged, for every b shorter than 16
\* bytes or not starting with the magic, whatever kind is expected.
C4_LegacyPassthrough ==
    (pc = "unwrapped" /\ ~LooksFramed(data)) => result = Ok(data)

C4_Witness ==
    /\ pc = "unwrapped"
    /\ Len(data) >= 16
    /\ SubSeq(data, 1, 3) = SubSeq(EDN1, 1, 3)
    /\ data[4] # EDN1[4]
    /\ data[5] \notin {1, 2}
    /\ result = Ok(data)

\* C5: an envelope written with a codec and kind1 is refused by unwrap_auto
\* when kind2 # kind1 is expected: the result is an error, never bytes.
C5_KindMismatchRejected ==
    (RoundTripDone /\ args.opts.codec # "None" /\ expected # args.kind)
        => ~result.ok /\ result.val = <<>>

C5_Witness ==
    /\ RoundTripDone
    /\ args.opts.codec = "Zstd"
    /\ args.kind = "SubEngramBincode"
    /\ expected = "EngramBincode"
    /\ result = Err("unexpected envelope payload kind")

\* the bytes 8..16 of d are the little-endian u64 of the length n (n < 2^31)
DeclaresLength(d, n) ==
    /\ d[9] = n % 256
    /\ d[10] = (n \div 256) % 256
    /\ d[11] = (n \div 65536) % 256
    /\ d[12] = n \div 16777216
    /\ \A i \in 13..16 : d[i] = 0

C7_FramedLayout ==
    (pc = "wrapped" /\ origin = "none" /\ args.opts.codec # "None" /\ stored.ok)
        => LET out == stored.val
               compressed == compress(args.opts.codec, args.raw, args.opts.level).val
           IN  /\ Len(out) = 16 + Len(compressed)
               /\ SubSeq(out, 1, 4) = EDN1
               /\ out[5] = (IF args.kind = "EngramBincode" THEN 1 ELSE 2)
               /\ out[6] = (IF args.opts.codec = "Zstd" THEN 1 ELSE 2)
               /\ out[7] = 0
               /\ out[8] = 0
               /\ DeclaresLength(out, Len(args.raw))
               /\ SubSeq(out, 17, Len(out)) = compressed

C7_Witness ==
    /\ pc = "wrapped"
    /\ origin = "none"
    /\ args.opts.codec = "Zstd"
    /\ args.kind = "SubEngramBincode"
    /\ stored.ok
    /\ Len(args.raw) = MaxLen
    /\ stored.val[9] = MaxLen
    /\ Len(stored.val) > 16 + MaxLen

\* the payload kind a tag byte stands for in the wire format
KindOfTag(b) == IF b = 1 THEN "EngramBincode" ELSE "SubEngramBincode"

\* C8: an input of 16 bytes or more (exactly 16 included) that starts with the
\* magic is never handed back as legacy: the result is an error, or the
\* decoding of bytes 16.. under the header's kind, codec and length.
C8_MagicCollisionIsFramed ==
    (pc = "unwrapped" /\ LooksFramed(data))
        => /\ result # Ok(data)
           /\ result.ok =>
                LET payload == SubSeq(data, 17, Len(data))
                IN  /\ data[5] \in {1, 2}
                    /\ KindOfTag(data[5]) = expected
                    /\ data[6] \in {0, 1, 2}
                    /\ data[6] = 0 => result.val = payload
                    /\ data[6] = 1 => build.zstd /\ result = zstd_decode_all(payload)
                    /\ data[6] = 2 =>
                            build.lz4 /\ result = lz4_decompress_size_prepended(payload)
                    /\ DeclaresLength(data, Len(result.val))

C8_Witness ==
    /\ pc = "unwrapped"
    /\ Len(data) = 16
    /\ SubSeq(data, 1, 4) = EDN1
    /\ data[6] = 0
    /\ result = Ok(<<>>)

\* C9: on a framed input unwrap_auto fails when byte 4 is neither 1 nor 2
\* (unknown payload kind) and fails when byte 4 is the expected kind and
\* byte 5 is none of 0, 1, 2 (unknown compression codec).
C9_UnknownTagsRejected ==
    (pc = "unwrapped" /\ LooksFramed(data))
        => /\ data[5] \notin {1, 2}
                => result = Err("unknown envelope payload kind")
           /\ (data[5] \in {1, 2} /\ KindOfTag(data[5]) = expected /\ data[6] \notin {0, 1, 2})
                => result = Err("unknown envelope compression codec")

C9_Witness ==
    /\ pc = "unwrapped"
    /\ LooksFramed(data)
    /\ data[5] = 2
    /\ expected = "SubEngramBincode"
    /\ data[6] = 3
    /\ DeclaresLength(data, Len(data) - 16)
    /\ result = Err("unknown envelope compression codec")

\* the codec a tag byte stands for in the wire format
CodecOfTag(b) == IF b = 1 THEN "Zstd" ELSE "Lz4"

MaxChunk == 2

Min(a, b) == IF a < b THEN a ELSE b
Take(q, n) == SubSeq(q, 1, Min(n, Len(q)))
Drop(q, n) == SubSeq(q, Min(n, Len(q)) + 1, Len(q))

\* the ErrorKinds a failing source or sink reports
FaultKinds == {"BrokenPipe", "Interrupted"}
Fault(kind) == IoError(kind, "device")

ReadRequests_at_least_one(buffer_size) ==
    IF buffer_size = 0 THEN {1} ELSE 1..buffer_size

\* how many bytes one read may put into a buffer of buffer_size bytes: a
\* read may be short, and a read into an empty buffer returns 0
ReadRequests(buffer_size) == IF buffer_size = 0 THEN {0} ELSE 1..buffer_size

\* reader.read(&mut buffer) delivering at most k bytes
R_read(r, k) ==
    IF r.fault # NoErr
    THEN [reader |-> [r EXCEPT !.fault = NoErr], res |-> ReadErr(r.fault)]
    ELSE [reader |-> [r EXCEPT !.data = Drop(r.data, k)], res |-> ReadOk(Take(r.data, k))]

\* Write::write_all(bytes): the loop of std retries a write that reports
\* ErrorKind::Interrupted and returns every other error
W_write_all(s, bytes) ==
    IF bytes = <<>>
    THEN [sink |-> s, res |-> CallOk(0)]
    ELSE IF s.fault = NoErr \/ s.fault.kind = "Interrupted"
         THEN [sink |-> [bytes |-> s.bytes \o bytes, flushed |-> FALSE, fault |-> NoErr],
               res |-> CallOk(0)]
         ELSE [sink |-> [s EXCEPT !.fault = NoErr], res |-> CallErr(s.fault)]

\* Write::flush()
W_flush(s) ==
    IF s.fault = NoErr
    THEN [sink |-> [s EXCEPT !.flushed = TRUE], res |-> CallOk(0)]
    ELSE [sink |-> [s EXCEPT !.fault = NoErr], res |-> CallErr(s.fault)]

\* the error a device returned between two states of it, if it returned one
Raised(before, after, log) ==
    IF before.fault # NoErr /\ after.fault = NoErr THEN before.fault ELSE log

(***************************************************************************)
(* The streaming encoders and decoders of the codec libraries              *)
(* (zstd::stream::Encoder / Decoder, lz4_flex::frame::FrameEncoder /       *)
(* FrameDecoder).  A frame is a magic number, blocks of a length byte and  *)
(* that many literal bytes, and an end mark (a zero length byte).          *)
(***************************************************************************)
LZ4_FRAME_MAGIC == <<4, 34, 77, 24>>
FrameMagic(inner) == IF inner = "Zstd" THEN ZSTD_FRAME_MAGIC ELSE LZ4_FRAME_MAGIC

\* the block size of the encoders
BlockCap == 2

Block(p) == IF p = <<>> THEN <<>> ELSE <<Len(p)>> \o p

RECURSIVE FullBlocks(_)
FullBlocks(p) ==
    IF Len(p) < BlockCap THEN <<>>
    ELSE Block(Take(p, BlockCap)) \o FullBlocks(Drop(p, BlockCap))

Remainder(p) == Drop(p, Len(p) - (Len(p) % BlockCap))

FrameHeader(c) == IF c.started THEN <<>> ELSE FrameMagic(c.inner)

\* encoder.write(buf): full blocks go to the sink, the rest stays pending
Encoder_write(c, s, bytes) ==
    LET p == c.pending \o bytes IN
    IF Len(p) < BlockCap
    THEN [comp |-> [c EXCEPT !.pending = p], sink |-> s, res |-> CallOk(0)]
    ELSE LET w == W_write_all(s, FrameHeader(c) \o FullBlocks(p)) IN
         IF w.res.ok
         THEN [comp |-> [c EXCEPT !.pending = Remainder(p), !.started = TRUE],
               sink |-> w.sink, res |-> CallOk(0)]
         ELSE [comp |-> c, sink |-> w.sink, res |-> w.res]

\* encoder.flush(): the pending bytes go out as a block, the sink is flushed,
\* the frame stays open
Encoder_flush(c, s) ==
    LET out == IF c.pending = <<>> THEN <<>> ELSE FrameHeader(c) \o Block(c.pending)
        w == W_write_all(s, out)
        f == W_flush(w.sink)
    IN  IF ~w.res.ok
        THEN [comp |-> c, sink |-> w.sink, res |-> w.res]
        ELSE [comp |-> [c EXCEPT !.pending = <<>>, !.started = c.started \/ out # <<>>],
              sink |-> f.sink, res |-> f.res]

\* encoder.finish(): header if none was written, the pending block, the end
\* mark; whether the library then flushes the sink is its own choice
Encoder_finish(c, s, flushes) ==
    LET w == W_write_all(s, FrameHeader(c) \o Block(c.pending) \o <<0>>)
        f == W_flush(w.sink)
    IN  IF ~w.res.ok \/ ~flushes THEN [sink |-> w.sink, res |-> w.res]
        ELSE [sink |-> f.sink, res |-> f.res]

\* the decoder takes input up to its next block: "data" with the block's
\* bytes, "eof" at a frame boundary with no input left, "err" on input that
\* is no frame.  After an end mark a next frame may follow.
RECURSIVE Decoder_fill(_, _, _)
Decoder_fill(inner, d, inframe) ==
    IF ~inframe
    THEN IF d = <<>> THEN [data |-> d, inframe |-> FALSE, out |-> <<>>, res |-> "eof"]
         ELSE IF Take(d, 4) = FrameMagic(inner) THEN Decoder_fill(inner, Drop(d, 4), TRUE)
         ELSE [data |-> d, inframe |-> FALSE, out |-> <<>>, res |-> "err"]
    ELSE IF d = <<>> THEN [data |-> d, inframe |-> TRUE, out |-> <<>>, res |-> "err"]
         ELSE IF d[1] = 0 THEN Decoder_fill(inner, Drop(d, 1), FALSE)
         ELSE IF Len(d) >= 1 + d[1]
              THEN [data |-> Drop(d, 1 + d[1]), inframe |-> TRUE,
                    out |-> SubSeq(d, 2, 1 + d[1]), res |-> "data"]
              ELSE [data |-> d, inframe |-> TRUE, out |-> <<>>, res |-> "err"]

(***************************************************************************)
(* StreamCompressor and StreamDecompressor                                 *)
(***************************************************************************)
\* CompressionLevel: Fast, Default, Best, Custom(l)
Level(tag, l) == [tag |-> tag, l |-> l]

CompressionLevel_to_zstd_level(level) ==
    CASE level.tag = "Fast" -> 1
      [] level.tag = "Default" -> 3
      [] level.tag = "Best" -> 19
      [] level.tag = "Custom" -> level.l

Compressor(inner) == [inner |-> inner, pending |-> <<>>, started |-> FALSE]
Decompressor(inner) == [inner |-> inner, out |-> <<>>, inframe |-> FALSE]

\* io::Result<StreamCompressor<W>>, io::Result<StreamDecompressor<R>>
CompOk(c) == [ok |-> TRUE, comp |-> c, err |-> NoErr]
CompErr(e) == [ok |-> FALSE, comp |-> NoCompressor, err |-> e]
DecOk(d) == [ok |-> TRUE, dec |-> d, err |-> NoErr]
DecErr(e) == [ok |-> FALSE, dec |-> NoDecompressor, err |-> e]

\* zstd::Encoder::new(writer, level): a library that validates the level
\* refuses one outside its range
Encoder_new(b, lvl) ==
    IF b.strict_level /\ lvl \notin ZstdLevelRange
    THEN CompErr(IoError("Other", "invalid compression level"))
    ELSE CompOk(Compressor("Zstd"))

StreamCompressor_zstd(b, level) ==
    IF b.zstd
    THEN Encoder_new(b, CompressionLevel_to_zstd_level(level))
    ELSE CompErr(IoError("Other",
             "zstd streaming compression requires feature compression-zstd"))

StreamCompressor_lz4(b, level) ==
    IF b.lz4
    THEN CompOk(Compressor("Lz4"))
    ELSE CompErr(IoError("Other",
             "lz4 streaming compression requires feature compression-lz4"))

StreamCompressor_none == Compressor("None")

StreamCompressor_with_codec_any_build(b, codec, level) ==
    CompOk(Compressor(codec))

StreamCompressor_with_codec_downgrade(b, codec, level) ==
    CASE codec = "None" -> CompOk(StreamCompressor_none)
      [] codec = "Zstd" -> IF b.zstd THEN StreamCompressor_zstd(b, level)
                           ELSE CompOk(StreamCompressor_none)
      [] codec = "Lz4" -> IF b.lz4 THEN StreamCompressor_lz4(b, level)
                          ELSE CompOk(StreamCompressor_none)

StreamCompressor_with_codec(b, codec, level) ==
    CASE codec = "None" -> CompOk(StreamCompressor_none)
      [] codec = "Zstd" -> StreamCompressor_zstd(b, level)
      [] codec = "Lz4" -> StreamCompressor_lz4(b, level)

StreamCompressor_write_all_framed(c, s, bytes) == Encoder_write(c, s, bytes)

\* compressor.write_all(bytes): Write::write of the adapter hands the bytes
\* to the encoder or, for None, to the sink
StreamCompressor_write_all(c, s, bytes) ==
    IF c.inner = "None"
    THEN LET w == W_write_all(s, bytes) IN [comp |-> c, sink |-> w.sink, res |-> w.res]
    ELSE Encoder_write(c, s, bytes)

StreamCompressor_flush_finalizes(c, s) ==
    IF c.inner = "None"
    THEN LET f == W_flush(s) IN [comp |-> c, sink |-> f.sink, res |-> f.res]
    ELSE LET f == Encoder_finish(c, s, TRUE) IN
         [comp |-> [c EXCEPT !.pending = <<>>, !.started = TRUE],
          sink |-> f.sink, res |-> f.res]

StreamCompressor_flush(c, s) ==
    IF c.inner = "None"
    THEN LET f == W_flush(s) IN [comp |-> c, sink |-> f.sink, res |-> f.res]
    ELSE Encoder_flush(c, s)

\* finish(self): Zstd returns the encoder's result, Lz4 puts the encoder's
\* error into io::Error::other, None returns the writer as it is
StreamCompressor_finish(c, s, flushes) ==
    CASE c.inner = "Zstd" -> Encoder_finish(c, s, flushes)
      [] c.inner = "Lz4" ->
            LET f == Encoder_finish(c, s, flushes) IN
            IF f.res.ok THEN f
            ELSE [sink |-> f.sink, res |-> CallErr(io_Error_other(f.res.err))]
      [] c.inner = "None" -> [sink |-> s, res |-> CallOk(0)]

StreamDecompressor_zstd(b) ==
    IF b.zstd THEN DecOk(Decompressor("Zstd"))
    ELSE DecErr(IoError("Other",
             "zstd streaming decompression requires feature compression-zstd"))

StreamDecompressor_lz4(b) ==
    IF b.lz4 THEN DecOk(Decompressor("Lz4"))
    ELSE DecErr(IoError("Other",
             "lz4 streaming decompression requires feature compression-lz4"))

StreamDecompressor_none == Decompressor("None")

StreamDecompressor_with_codec(b, codec) ==
    CASE codec = "None" -> DecOk(StreamDecompressor_none)
      [] codec = "Zstd" -> StreamDecompressor_zstd(b)
      [] codec = "Lz4" -> StreamDecompressor_lz4(b)

Decoder_read_eof_in_frame(d, r, k) ==
    IF k = 0 THEN [dec |-> d, reader |-> r, res |-> ReadOk(<<>>)]
    ELSE IF d.out # <<>>
    THEN [dec |-> [d EXCEPT !.out = Drop(d.out, k)], reader |-> r,
          res |-> ReadOk(Take(d.out, k))]
    ELSE IF r.fault # NoErr
    THEN [dec |-> d, reader |-> [r EXCEPT !.fault = NoErr], res |-> ReadErr(r.fault)]
    ELSE LET f == Decoder_fill(d.inner, r.data, d.inframe) IN
         CASE f.res = "err" ->
                [dec |-> d, reader |-> r,
                 res |-> ReadErr(IoError("InvalidData", "corrupt frame"))]
           [] f.res = "eof" ->
                [dec |-> [d EXCEPT !.inframe = TRUE], reader |-> [r EXCEPT !.data = <<>>],
                 res |-> ReadOk(<<>>)]
           [] f.res = "data" ->
                [dec |-> [d EXCEPT !.inframe = TRUE, !.out = Drop(f.out, k)],
                 reader |-> [r EXCEPT !.data = f.data],
                 res |-> ReadOk(Take(f.out, k))]

\* decoder.read(buf) delivering at most k bytes: decoded bytes not yet
\* delivered first, else the next block of the source
Decoder_read(d, r, k) ==
    IF k = 0 THEN [dec |-> d, reader |-> r, res |-> ReadOk(<<>>)]
    ELSE IF d.out # <<>>
    THEN [dec |-> [d EXCEPT !.out = Drop(d.out, k)], reader |-> r,
          res |-> ReadOk(Take(d.out, k))]
    ELSE IF r.fault # NoErr
    THEN [dec |-> d, reader |-> [r EXCEPT !.fault = NoErr], res |-> ReadErr(r.fault)]
    ELSE LET f == Decoder_fill(d.inner, r.data, d.inframe) IN
         CASE f.res = "err" ->
                [dec |-> d, reader |-> r,
                 res |-> ReadErr(IoError("InvalidData", "corrupt frame"))]
           [] f.res = "eof" ->
                [dec |-> [d EXCEPT !.inframe = FALSE], reader |-> [r EXCEPT !.data = <<>>],
                 res |-> ReadOk(<<>>)]
           [] f.res = "data" ->
                [dec |-> [d EXCEPT !.inframe = TRUE, !.out = Drop(f.out, k)],
                 reader |-> [r EXCEPT !.data = f.data],
                 res |-> ReadOk(Take(f.out, k))]

\* impl Read for StreamDecompressor
StreamDecompressor_read(d, r, k) ==
    IF d.inner = "None"
    THEN LET x == R_read(r, k) IN [dec |-> d, reader |-> x.reader, res |-> x.res]
    ELSE Decoder_read(d, r, k)

(***************************************************************************)
(* The state machine of the streaming part.  A run is one use: a caller    *)
(* drives a StreamCompressor (write_all, flush, finish), or reads a        *)
(* StreamDecompressor, or calls stream_compress (and then                  *)
(* stream_decompress on its output), stream_decompress or copy_buffered.   *)
(* The source and the sink may fail once during a call.                    *)
(***************************************************************************)
\* the longest input of a streaming call
MaxStream == 3

\* how often a caller flushes in the middle of a stream
MaxFlush == 2

StreamInputs == SeqsUpTo(MaxStream)
Chunks == SeqsUpTo(MaxChunk) \ {<<>>}
BufferSizes == 0..MaxChunk
CompressionLevels == {Level("Default", 0), Level("Custom", 23)}

\* a whole frame around p, as an encoder that is never flushed writes it
CodecFrame(inner, p) ==
    FrameMagic(inner) \o FullBlocks(p) \o Block(Remainder(p)) \o <<0>>

\* what a decompressor is given to read: any bytes for None; for a codec
\* frames, a frame cut short, two frames in a row, and bytes that are no frame
DecoderSources(codec) ==
    IF codec = "None" THEN SeqsUpTo(MaxChunk)
    ELSE {CodecFrame(codec, p) : p \in SeqsUpTo(MaxChunk)}
         \cup {Take(CodecFrame(codec, <<200>>), 5), <<>>, <<200>>,
               CodecFrame(codec, <<200>>) \o CodecFrame(codec, <<0>>)}

Running == call # "idle" /\ spc # "done"

\* StreamCompressor::with_codec(sink, codec, level)
MC_Open(codec, level) ==
    /\ call = "idle"
    /\ LET r == StreamCompressor_with_codec(build, codec, level) IN
       /\ call' = "session"
       /\ scodec' = codec
       /\ comp' = r.comp
       /\ spc' = IF r.ok THEN "open" ELSE "done"
       /\ sret' = IF r.ok THEN NoCall ELSE CallErr(r.err)
    /\ UNCHANGED <<vars, wbuf, ovars, bufsize, plain, reader, dec, sink, total, lastread, flog,
                   input, nflush, first>>

\* compressor.write_all(bytes)
MC_WriteAll(bytes) ==
    /\ call = "session" /\ spc = "open"
    /\ Len(plain) + Len(bytes) <= MaxStream
    /\ LET w == StreamCompressor_write_all(comp, sink, bytes) IN
       /\ comp' = w.comp
       /\ sink' = w.sink
       /\ flog' = Raised(sink, w.sink, flog)
       /\ plain' = IF w.res.ok THEN plain \o bytes ELSE plain
       /\ spc' = IF w.res.ok THEN "open" ELSE "done"
       /\ sret' = IF w.res.ok THEN sret ELSE w.res
    /\ UNCHANGED <<vars, wbuf, ovars, call, scodec, bufsize, reader, dec, total, lastread,
                   input, nflush, first>>

\* compressor.flush()
MC_Flush ==
    /\ call = "session" /\ spc = "open"
    /\ nflush < MaxFlush
    /\ LET f == StreamCompressor_flush(comp, sink) IN
       /\ comp' = f.comp
       /\ sink' = f.sink
       /\ flog' = Raised(sink, f.sink, flog)
       /\ nflush' = IF f.res.ok THEN nflush + 1 ELSE nflush
       /\ spc' = IF f.res.ok THEN "open" ELSE "done"
       /\ sret' = IF f.res.ok THEN sret ELSE f.res
    /\ UNCHANGED <<vars, wbuf, ovars, call, scodec, bufsize, plain, reader, dec, total, lastread,
                   input, first>>

\* compressor.finish()
MC_Finish(flushes) ==
    /\ call = "session" /\ spc = "open"
    /\ LET f == StreamCompressor_finish(comp, sink, flushes) IN
       /\ sink' = f.sink
       /\ flog' = Raised(sink, f.sink, flog)
       /\ sret' = f.res
    /\ spc' = "done"
    /\ UNCHANGED <<vars, wbuf, ovars, call, scodec, bufsize, plain, reader, comp, dec, total,
                   lastread, input, nflush, first>>

\* StreamDecompressor::with_codec(source, codec), read into a buffer of
\* buffer_size bytes
MD_Open(codec, src, buffer_size) ==
    /\ call = "idle"
    /\ LET r == StreamDecompressor_with_codec(build, codec) IN
       /\ call' = "reading"
       /\ scodec' = codec
       /\ bufsize' = buffer_size
       /\ dec' = r.dec
       /\ reader' = Source(src)
       /\ input' = src
       /\ spc' = IF r.ok THEN "open" ELSE "done"
       /\ sret' = IF r.ok THEN NoCall ELSE CallErr(r.err)
    /\ UNCHANGED <<vars, wbuf, ovars, plain, comp, sink, total, lastread, flog, nflush, first>>

\* decompressor.read(&mut buf); "eof" once a read into a non-empty buffer
\* returned Ok(0), "past" once the caller has read again after that
MD_Read(k) ==
    /\ call = "reading" /\ spc \in {"open", "eof", "past"}
    /\ LET x == StreamDecompressor_read(dec, reader, k) IN
       /\ dec' = x.dec
       /\ reader' = x.reader
       /\ flog' = Raised(reader, x.reader, flog)
       /\ lastread' = x.res
       /\ plain' = plain \o x.res.val
       /\ spc' = IF spc \in {"eof", "past"} THEN "past"
                 ELSE IF k > 0 /\ x.res.ok /\ x.res.val = <<>> THEN "eof"
                 ELSE "open"
    /\ UNCHANGED <<vars, wbuf, ovars, call, scodec, bufsize, comp, sink, total, sret, input,
                   nflush, first>>

\* the sink's next operation fails; a call sees at most one device failure
SinkFault(kind) ==
    /\ Running /\ call \notin {"reading"}
    /\ reader.fault = NoErr /\ sink.fault = NoErr /\ flog = NoErr
    /\ sink' = [sink EXCEPT !.fault = Fault(kind)]
    /\ UNCHANGED <<vars, wbuf, ovars, call, spc, scodec, bufsize, plain, reader, comp, dec, total,
                   sret, lastread, flog, input, nflush, first>>

\* the source's next read fails; a source that has signalled end-of-data
\* goes on signalling it
SourceFault(kind) ==
    /\ Running /\ call \notin {"session"} /\ spc \in {"open", "loop"}
    /\ reader.fault = NoErr /\ sink.fault = NoErr /\ flog = NoErr
    /\ reader' = [reader EXCEPT !.fault = Fault(kind)]
    /\ UNCHANGED <<vars, wbuf, ovars, call, spc, scodec, bufsize, plain, comp, dec, sink, total,
                   sret, lastread, flog, input, nflush, first>>

(***************************************************************************)
(* stream_compress, stream_decompress, copy_buffered: one turn of the loop *)
(***************************************************************************)
Turn(r, c, d, s, tot, at, ret) ==
    [reader |-> r, comp |-> c, dec |-> d, sink |-> s, total |-> tot, spc |-> at,
     ret |-> ret]

\* a loop without the break
stream_compress_turn_no_break(r, c, s, tot, k) ==
    LET x == R_read(r, k)
        w == StreamCompressor_write_all(c, s, x.res.val)
    IN  IF ~x.res.ok
        THEN Turn(x.reader, c, NoDecompressor, s, tot, "done", CallErr(x.res.err))
        ELSE IF ~w.res.ok
        THEN Turn(x.reader, w.comp, NoDecompressor, w.sink, tot, "done", w.res)
        ELSE Turn(x.reader, w.comp, NoDecompressor, w.sink, tot + Len(x.res.val),
                  "loop", NoCall)

\* loop { let n = reader.read(&mut buffer)?; if n == 0 { break; }
\*        compressor.write_all(&buffer[..n])?; total_written += n as u64; }
stream_compress_turn(r, c, s, tot, k) ==
    LET x == R_read(r, k)
        w == StreamCompressor_write_all(c, s, x.res.val)
    IN  IF ~x.res.ok
        THEN Turn(x.reader, c, NoDecompressor, s, tot, "done", CallErr(x.res.err))
        ELSE IF x.res.val = <<>>
        THEN Turn(x.reader, c, NoDecompressor, s, tot, "finish", NoCall)
        ELSE IF ~w.res.ok
        THEN Turn(x.reader, w.comp, NoDecompressor, w.sink, tot, "done", w.res)
        ELSE Turn(x.reader, w.comp, NoDecompressor, w.sink, tot + Len(x.res.val),
                  "loop", NoCall)

\* compressor.finish()?; Ok(total_written)
stream_compress_end(c, s, tot, flushes) ==
    LET f == StreamCompressor_finish(c, s, flushes) IN
    [sink |-> f.sink, ret |-> IF f.res.ok THEN CallOk(tot) ELSE f.res]

stream_decompress_turn_short_read_ends(r, d, s, tot, k) ==
    LET x == StreamDecompressor_read(d, r, k)
        w == W_write_all(s, x.res.val)
    IN  IF ~x.res.ok
        THEN Turn(x.reader, NoCompressor, x.dec, s, tot, "done", CallErr(x.res.err))
        ELSE IF x.res.val = <<>>
        THEN Turn(x.reader, NoCompressor, x.dec, s, tot, "finish", NoCall)
        ELSE IF ~w.res.ok
        THEN Turn(x.reader, NoCompressor, x.dec, w.sink, tot, "done", w.res)
        ELSE Turn(x.reader, NoCompressor, x.dec, w.sink, tot + Len(x.res.val),
                  IF Len(x.res.val) < k THEN "finish" ELSE "loop", NoCall)

\* loop { let n = decompressor.read(&mut buffer)?; if n == 0 { break; }
\*        writer.write_all(&buffer[..n])?; total_written += n as u64; }
stream_decompress_turn(r, d, s, tot, k) ==
    LET x == StreamDecompressor_read(d, r, k)
        w == W_write_all(s, x.res.val)
    IN  IF ~x.res.ok
        THEN Turn(x.reader, NoCompressor, x.dec, s, tot, "done", CallErr(x.res.err))
        ELSE IF x.res.val = <<>>
        THEN Turn(x.reader, NoCompressor, x.dec, s, tot, "finish", NoCall)
        ELSE IF ~w.res.ok
        THEN Turn(x.reader, NoCompressor, x.dec, w.sink, tot, "done", w.res)
        ELSE Turn(x.reader, NoCompressor, x.dec, w.sink, tot + Len(x.res.val),
                  "loop", NoCall)

\* writer.flush()?; Ok(total_written)
stream_decompress_end(s, tot) ==
    LET f == W_flush(s) IN
    [sink |-> f.sink, ret |-> IF f.res.ok THEN CallOk(tot) ELSE f.res]

copy_buffered_turn_drops_short(r, s, tot, k) ==
    LET x == R_read(r, k)
        w == W_write_all(s, IF Len(x.res.val) < k THEN <<>> ELSE x.res.val)
    IN  IF ~x.res.ok
        THEN Turn(x.reader, NoCompressor, NoDecompressor, s, tot, "done",
                  CallErr(x.res.err))
        ELSE IF x.res.val = <<>>
        THEN Turn(x.reader, NoCompressor, NoDecompressor, s, tot, "done", CallOk(tot))
        ELSE IF ~w.res.ok
        THEN Turn(x.reader, NoCompressor, NoDecompressor, w.sink, tot, "done", w.res)
        ELSE Turn(x.reader, NoCompressor, NoDecompressor, w.sink,
                  tot + Len(x.res.val), "loop", NoCall)

\* loop { let n = reader.read(&mut buffer)?; if n == 0 { break; }
\*        writer.write_all(&buffer[..n])?; total += n as u64; }  Ok(total)
copy_buffered_turn(r, s, tot, k) ==
    LET x == R_read(r, k)
        w == W_write_all(s, x.res.val)
    IN  IF ~x.res.ok
        THEN Turn(x.reader, NoCompressor, NoDecompressor, s, tot, "done",
                  CallErr(x.res.err))
        ELSE IF x.res.val = <<>>
        THEN Turn(x.reader, NoCompressor, NoDecompressor, s, tot, "done", CallOk(tot))
        ELSE IF ~w.res.ok
        THEN Turn(x.reader, NoCompressor, NoDecompressor, w.sink, tot, "done", w.res)
        ELSE Turn(x.reader, NoCompressor, NoDecompressor, w.sink,
                  tot + Len(x.res.val), "loop", NoCall)

\* stream_compress(reader over b, sink, codec, level, buffer_size) begins
SC_Start(b, codec, level, buffer_size) ==
    /\ call = "idle"
    /\ LET r == StreamCompressor_with_codec(build, codec, level) IN
       /\ comp' = r.comp
       /\ spc' = IF r.ok THEN "loop" ELSE "done"
       /\ sret' = IF r.ok THEN NoCall ELSE CallErr(r.err)
    /\ call' = "stream_compress"
    /\ scodec' = codec
    /\ bufsize' = buffer_size
    /\ reader' = Source(b)
    /\ input' = b
    /\ UNCHANGED <<vars, wbuf, ovars, plain, dec, sink, total, lastread, flog, nflush, first>>

SC_Turn(k) ==
    /\ call = "stream_compress" /\ spc = "loop"
    /\ LET t == stream_compress_turn(reader, comp, sink, total, k) IN
       /\ reader' = t.reader
       /\ comp' = t.comp
       /\ sink' = t.sink
       /\ total' = t.total
       /\ spc' = t.spc
       /\ sret' = t.ret
       /\ flog' = Raised(reader, t.reader, Raised(sink, t.sink, flog))
    /\ UNCHANGED <<vars, wbuf, ovars, call, scodec, bufsize, plain, dec, lastread, input, nflush,
                   first>>

SC_End(flushes) ==
    /\ call = "stream_compress" /\ spc = "finish"
    /\ LET e == stream_compress_end(comp, sink, total, flushes) IN
       /\ sink' = e.sink
       /\ sret' = e.ret
       /\ flog' = Raised(sink, e.sink, flog)
    /\ spc' = "done"
    /\ UNCHANGED <<vars, wbuf, ovars, call, scodec, bufsize, plain, reader, comp, dec, total,
                   lastread, input, nflush, first>>

\* stream_decompress(reader over what stream_compress wrote, sink, the same
\* codec, buffer_size) begins
SD_Start(buffer_size) ==
    /\ call = "stream_compress" /\ spc = "done" /\ sret.ok
    /\ LET r == StreamDecompressor_with_codec(build, scodec) IN
       /\ dec' = r.dec
       /\ spc' = IF r.ok THEN "loop" ELSE "done"
       /\ sret' = IF r.ok THEN NoCall ELSE CallErr(r.err)
    /\ call' = "stream_decompress"
    /\ first' = [call |-> call, bufsize |-> bufsize, input |-> input, ret |-> sret]
    /\ bufsize' = buffer_size
    /\ reader' = Source(sink.bytes)
    /\ input' = sink.bytes
    /\ sink' = EmptySink
    /\ comp' = NoCompressor
    /\ total' = 0
    /\ flog' = NoErr
    /\ UNCHANGED <<vars, wbuf, ovars, scodec, plain, lastread, nflush>>

\* stream_decompress(reader over src, sink, codec, buffer_size) begins
SD_Fresh(src, codec, buffer_size) ==
    /\ call = "idle"
    /\ LET r == StreamDecompressor_with_codec(build, codec) IN
       /\ dec' = r.dec
       /\ spc' = IF r.ok THEN "loop" ELSE "done"
       /\ sret' = IF r.ok THEN NoCall ELSE CallErr(r.err)
    /\ call' = "stream_decompress"
    /\ scodec' = codec
    /\ bufsize' = buffer_size
    /\ reader' = Source(src)
    /\ input' = src
    /\ UNCHANGED <<vars, wbuf, ovars, plain, comp, sink, total, lastread, flog, nflush, first>>

SD_Turn(k) ==
    /\ call = "stream_decompress" /\ spc = "loop"
    /\ LET t == stream_decompress_turn(reader, dec, sink, total, k) IN
       /\ reader' = t.reader
       /\ dec' = t.dec
       /\ sink' = t.sink
       /\ total' = t.total
       /\ spc' = t.spc
       /\ sret' = t.ret
       /\ flog' = Raised(reader, t.reader, Raised(sink, t.sink, flog))
    /\ UNCHANGED <<vars, wbuf, ovars, call, scodec, bufsize, plain, comp, lastread, input, nflush,
                   first>>

SD_End ==
    /\ call = "stream_decompress" /\ spc = "finish"
    /\ LET e == stream_decompress_end(sink, total) IN
       /\ sink' = e.sink
       /\ sret' = e.ret
       /\ flog' = Raised(sink, e.sink, flog)
    /\ spc' = "done"
    /\ UNCHANGED <<vars, wbuf, ovars, call, scodec, bufsize, plain, reader, comp, dec, total,
                   lastread, input, nflush, first>>

\* copy_buffered(reader over b, sink, buffer_size) begins
CB_Start(b, buffer_size) ==
    /\ call = "idle"
    /\ call' = "copy_buffered"
    /\ spc' = "loop"
    /\ bufsize' = buffer_size
    /\ reader' = Source(b)
    /\ input' = b
    /\ UNCHANGED <<vars, wbuf, ovars, scodec, plain, comp, dec, sink, total, sret, lastread, flog,
                   nflush, first>>

CB_Turn(k) ==
    /\ call = "copy_buffered" /\ spc = "loop"
    /\ LET t == copy_buffered_turn(reader, sink, total, k) IN
       /\ reader' = t.reader
       /\ sink' = t.sink
       /\ total' = t.total
       /\ spc' = t.spc
       /\ sret' = t.ret
       /\ flog' = Raised(reader, t.reader, Raised(sink, t.sink, flog))
    /\ UNCHANGED <<vars, wbuf, ovars, call, scodec, bufsize, plain, comp, dec, lastread, input,
                   nflush, first>>

StreamNext ==
    \/ /\ call = "idle"
       /\ \E codec \in CompressionCodecs, level \in CompressionLevels :
            MC_Open(codec, level)
    \/ /\ call = "session"
       /\ \E bytes \in Chunks : MC_WriteAll(bytes)
    \/ MC_Flush
    \/ /\ call = "session"
       /\ \E flushes \in BOOLEAN : MC_Finish(flushes)
    \/ /\ call = "idle"
       /\ \E codec \in CompressionCodecs, buffer_size \in BufferSizes :
            \E src \in DecoderSources(codec) : MD_Open(codec, src, buffer_size)
    \/ /\ call = "reading"
       /\ \E k \in ReadRequests(bufsize) : MD_Read(k)
    \/ \E kind \in FaultKinds : SinkFault(kind)
    \/ \E kind \in FaultKinds : SourceFault(kind)
    \/ /\ call = "idle"
       /\ \E b \in StreamInputs, codec \in CompressionCodecs,
             level \in CompressionLevels, buffer_size \in BufferSizes :
            SC_Start(b, codec, level, buffer_size)
    \/ /\ call = "stream_compress"
       /\ \E k \in ReadRequests(bufsize) : SC_Turn(k)
    \/ /\ call = "stream_compress"
       /\ \E flushes \in BOOLEAN : SC_End(flushes)
    \/ \E buffer_size \in BufferSizes : SD_Start(buffer_size)
    \/ /\ call = "idle"
       /\ \E codec \in CompressionCodecs, buffer_size \in BufferSizes :
            \E src \in DecoderSources(codec) : SD_Fresh(src, codec, buffer_size)
    \/ /\ call = "stream_decompress"
       /\ \E k \in ReadRequests(bufsize) : SD_Turn(k)
    \/ SD_End
    \/ /\ call = "idle"
       /\ \E b \in StreamInputs, buffer_size \in BufferSizes : CB_Start(b, buffer_size)
    \/ /\ call = "copy_buffered"
       /\ \E k \in ReadRequests(bufsize) : CB_Turn(k)

StreamSpec == Init /\ [][StreamNext]_allvars

(***************************************************************************)
(* Properties of the streaming adapters and the whole-stream operations    *)
(***************************************************************************)
FeatureError(e) == e.kind = "Other" /\ ~e.wrapped

\* C12: With codec None, StreamCompressor::with_codec and
\* StreamDecompressor::with_codec return an adapter.  With a codec whose
\* feature is not in the build they return an error and no adapter.  The
\* adapter they return is never backed by another codec than the one asked
\* for.
C12_AdapterCodecSelection ==
    /\ call = "session" =>
         /\ scodec = "None" => comp.inner = "None"
         /\ (scodec # "None" /\ ~CodecEnabled(scodec)) =>
               /\ comp = NoCompressor
               /\ spc = "done" /\ ~sret.ok /\ FeatureError(sret.err)
         /\ comp.inner \in {"-", scodec}
    /\ call = "reading" =>
         /\ scodec = "None" => dec.inner = "None"
         /\ (scodec # "None" /\ ~CodecEnabled(scodec)) =>
               /\ dec = NoDecompressor
               /\ spc = "done" /\ ~sret.ok /\ FeatureError(sret.err)
         /\ dec.inner \in {"-", scodec}

\* with_codec was asked for zstd in a build without it and returned the error
C12_Witness ==
    /\ call = "session" /\ scodec = "Zstd" /\ ~build.zstd
    /\ spc = "done" /\ ~sret.ok /\ comp = NoCompressor

RoundTripEnded ==
    call = "stream_decompress" /\ spc = "done" /\ first.call = "stream_compress"

\* C11 as stated, for every pair of chunk sizes: stream_compress of b
\* followed by stream_decompress of its output with the same codec writes
\* exactly b.
C11_StreamingEquivalenceAnyChunkSize ==
    (RoundTripEnded /\ flog = NoErr) => (sret.ok /\ sink.bytes = first.input)

\* C11: For every byte sequence b, every enabled codec and every pair of
\* chunk sizes that are both at least 1, stream_compress of b followed by
\* stream_decompress of its output with the same codec returns Ok and writes
\* exactly b, however the reads are cut into chunks.
C11_StreamingEquivalence ==
    (RoundTripEnded /\ flog = NoErr /\ first.bufsize > 0 /\ bufsize > 0) =>
        (sret.ok /\ sink.bytes = first.input)

\* three bytes went through zstd with chunk size 1 and came back with chunk
\* size 2
C11_Witness ==
    /\ RoundTripEnded /\ flog = NoErr /\ sret.ok
    /\ scodec = "Zstd" /\ first.bufsize = 1 /\ bufsize = 2
    /\ Len(first.input) = 3 /\ sink.bytes = first.input

\* finish() of a StreamCompressor returned Ok: in a session every failed
\* call ends the session with its error, so Ok at the end is finish's
FinishReturnedOk == call = "session" /\ spc = "done" /\ sret.ok

\* C13: When StreamCompressor::finish returns Ok, for every codec including
\* None, a flush has been issued on the sink after the last write to it.
C13_FinishFlushesSink ==
    (FinishReturnedOk /\ sink.bytes # <<>>) => sink.flushed

\* StreamCompressor::none: bytes were written, finish returned Ok, and no
\* flush followed the last write
C13_Witness ==
    /\ FinishReturnedOk /\ comp.inner = "None"
    /\ plain # <<>> /\ sink.bytes = plain /\ nflush = 0
    /\ ~sink.flushed

CompressReturnedOk == call = "stream_compress" /\ spc = "done" /\ sret.ok

\* C15: When stream_compress returns Ok(n), n is the number of bytes that
\* were written to the writer, the compressed size of the output.
C15_ReturnsCompressedSize ==
    CompressReturnedOk => sret.n = Len(sink.bytes)

\* stream_compress with zstd returned the length of its input while the
\* writer holds a frame of another length
C15_Witness ==
    /\ CompressReturnedOk /\ scodec = "Zstd" /\ flog = NoErr
    /\ sret.n = Len(input)
    /\ sink.bytes = CodecFrame("Zstd", input)
    /\ Len(sink.bytes) # Len(input)

\* a compressor session, stream_compress or stream_decompress has ended and
\* its source or sink returned an error on the way
EndedAfterDeviceError ==
    /\ call \in {"session", "stream_compress", "stream_decompress"}
    /\ spc = "done"
    /\ flog # NoErr

\* C16: When the source or the sink returns an error during a call on a
\* streaming adapter or during stream_compress / stream_decompress, the call
\* returns that same error: not retried, not wrapped, not suppressed.
C16_ErrorsPropagatedUnchanged ==
    EndedAfterDeviceError => sret = CallErr(flog)

\* the sink failed during finish() of an lz4 compressor and finish returned
\* another error, of kind Other, built around the sink's error
C16_Witness ==
    /\ EndedAfterDeviceError /\ call = "session" /\ scodec = "Lz4"
    /\ flog = Fault("BrokenPipe")
    /\ ~sret.ok /\ sret.err = io_Error_other(flog) /\ sret.err # flog

\* what a decoder of the codec yields when it is read to its end over d
RECURSIVE DecodeAll(_, _, _)
DecodeAll(inner, d, inframe) ==
    IF inner = "None" THEN [ok |-> TRUE, val |-> d]
    ELSE LET f == Decoder_fill(inner, d, inframe) IN
         CASE f.res = "eof" -> [ok |-> TRUE, val |-> <<>>]
           [] f.res = "err" -> [ok |-> FALSE, val |-> <<>>]
           [] f.res = "data" ->
                LET rest == DecodeAll(inner, f.data, TRUE) IN
                [ok |-> rest.ok, val |-> f.out \o rest.val]

\* a compressor was constructed and no device error occurred
SessionWithoutDeviceError == call = "session" /\ comp.inner # "-" /\ flog = NoErr

\* C17: However many flush() calls the caller puts between the writes of an
\* open compressor, no later write_all and no finish fails for it, the
\* finished output decodes to the bytes written, and for codec None the sink
\* holds exactly the bytes written, as it does without the flushes.
C17_MidStreamFlushHarmless ==
    (SessionWithoutDeviceError /\ spc = "done") =>
        /\ sret.ok
        /\ DecodeAll(scodec, sink.bytes, FALSE) = [ok |-> TRUE, val |-> plain]
        /\ scodec = "None" => sink.bytes = plain

\* an lz4 compressor was flushed twice between writes; the sink holds other
\* bytes than without the flushes, and they decode to the bytes written
C17_Witness ==
    /\ SessionWithoutDeviceError /\ spc = "done" /\ sret.ok
    /\ scodec = "Lz4" /\ nflush = 2 /\ Len(plain) = 3
    /\ sink.bytes # CodecFrame("Lz4", plain)
    /\ DecodeAll("Lz4", sink.bytes, FALSE) = [ok |-> TRUE, val |-> plain]

\* the three uses of the None adapters, each at its end
NoneSessionEnded == call = "session" /\ spc = "done" /\ sret.ok /\ scodec = "None"
NoneReadToEnd == call = "reading" /\ spc \in {"eof", "past"} /\ scodec = "None"
NoneStreamEnded ==
    /\ call \in {"stream_compress", "stream_decompress"}
    /\ spc = "done" /\ sret.ok /\ scodec = "None"

\* C18 as stated, for every buffer size: with codec None the sink of a
\* finished compressor holds the written bytes, a decompressor read to its
\* end has yielded the source bytes, and stream_compress and
\* stream_decompress have copied their input byte for byte.
C18_NoneIsIdentityAnyBufferSize ==
    /\ NoneSessionEnded => sink.bytes = plain
    /\ NoneReadToEnd => plain = input
    /\ NoneStreamEnded => sink.bytes = input

\* C18: With codec None the sink of a finished compressor holds exactly the
\* concatenation of the written bytes, a decompressor read to its end has
\* yielded exactly the source bytes, and stream_compress and
\* stream_decompress called with a buffer size of at least 1 have copied
\* their input byte for byte.
C18_NoneIsIdentity ==
    /\ NoneSessionEnded => sink.bytes = plain
    /\ NoneReadToEnd => plain = input
    /\ (NoneStreamEnded /\ bufsize > 0) => sink.bytes = input

\* three bytes went through stream_compress and stream_decompress with codec
\* None and arrived as they were
C18_Witness ==
    /\ NoneStreamEnded /\ call = "stream_decompress" /\ first.call = "stream_compress"
    /\ bufsize > 0 /\ first.bufsize > 0
    /\ Len(first.input) = 3 /\ input = first.input /\ sink.bytes = first.input

CopyReturnedOk == call = "copy_buffered" /\ spc = "done" /\ sret.ok

\* C20: When copy_buffered, called with a buffer size of at least 1 (as in
\* its tests), returns Ok(n), the bytes appended to the writer are the
\* reader's content in order and n is their number.
C20_CopyBufferedCopiesAndCounts ==
    (CopyReturnedOk /\ bufsize > 0) =>
        /\ sink.bytes = input
        /\ sret.n = Len(input)

\* three bytes were copied through a buffer of two
C20_Witness ==
    /\ CopyReturnedOk /\ bufsize = 2 /\ Len(input) = 3
    /\ sink.bytes = input /\ sret.n = 3

(***************************************************************************)
(* StreamWriter (src/src/io/stream.rs)                                     *)
(***************************************************************************)
\* the most bytes a caller hands to one StreamWriter
MaxWritten == 4

WriterChunks == SeqsUpTo(MaxStream)

Written(buf, s, res) == [buffer |-> buf, sink |-> s, res |-> res]

StreamWriter_write_chunk_always_appends(buf, buffer_size, s, d) ==
    IF Len(d) <= buffer_size
    THEN Written(buf \o d, s, CallOk(0))
    ELSE LET w == W_write_all(s, buf \o d) IN
         IF w.res.ok THEN Written(<<>>, w.sink, CallOk(0))
         ELSE Written(buf, w.sink, w.res)

StreamWriter_write_chunk_keeps_buffer(buf, buffer_size, s, d) ==
    IF Len(buf) + Len(d) <= buffer_size
    THEN Written(buf \o d, s, CallOk(0))
    ELSE IF Len(d) > buffer_size
         THEN LET w == W_write_all(s, d) IN Written(buf, w.sink, w.res)
         ELSE LET w == W_write_all(s, buf) IN
              IF w.res.ok THEN Written(d, w.sink, CallOk(0))
              ELSE Written(buf, w.sink, w.res)

\* write_chunk(&mut self, data): append if it fits; else write the buffer
\* out and clear it, then write data directly if it is longer than
\* buffer_size, else put it into the buffer
StreamWriter_write_chunk(buf, buffer_size, s, d) ==
    IF Len(buf) + Len(d) <= buffer_size
    THEN Written(buf \o d, s, CallOk(0))
    ELSE LET w1 == W_write_all(s, buf)
             b1 == IF buf # <<>> THEN <<>> ELSE buf
         IN  IF ~w1.res.ok THEN Written(buf, w1.sink, w1.res)
             ELSE IF Len(d) > buffer_size
             THEN LET w2 == W_write_all(w1.sink, d) IN Written(b1, w2.sink, w2.res)
             ELSE Written(b1 \o d, w1.sink, CallOk(0))

\* flush(&mut self): write the buffer out if it is not empty, clear it,
\* flush the writer
StreamWriter_flush(buf, s) ==
    LET w == W_write_all(s, buf)
        f == W_flush(w.sink)
    IN  IF ~w.res.ok THEN Written(buf, w.sink, w.res)
        ELSE Written(<<>>, f.sink, f.res)

\* finish(mut self): self.flush()?; Ok(self.writer)
StreamWriter_finish(buf, s) == StreamWriter_flush(buf, s)

\* StreamWriter::with_buffer_size(sink, buffer_size)
SW_Open(buffer_size) ==
    /\ call = "idle"
    /\ call' = "writer"
    /\ spc' = "open"
    /\ bufsize' = buffer_size
    /\ wbuf' = <<>>
    /\ UNCHANGED <<vars, ovars, scodec, plain, reader, comp, dec, sink, total, sret,
                   lastread, flog, input, nflush, first>>

\* writer.write_chunk(d); plain collects the chunks of the calls that
\* returned Ok
SW_WriteChunk(d) ==
    /\ call = "writer" /\ spc \in {"open", "flushed"}
    /\ Len(plain) + Len(d) <= MaxWritten
    /\ LET w == StreamWriter_write_chunk(wbuf, bufsize, sink, d) IN
       /\ wbuf' = w.buffer
       /\ sink' = w.sink
       /\ sret' = w.res
       /\ flog' = Raised(sink, w.sink, flog)
       /\ plain' = IF w.res.ok THEN plain \o d ELSE plain
    /\ spc' = "open"
    /\ UNCHANGED <<vars, ovars, call, scodec, bufsize, reader, comp, dec, total, lastread,
                   input, nflush, first>>

\* writer.flush(); "flushed" when it returned Ok
SW_Flush ==
    /\ call = "writer" /\ spc = "open"
    /\ LET w == StreamWriter_flush(wbuf, sink) IN
       /\ wbuf' = w.buffer
       /\ sink' = w.sink
       /\ sret' = w.res
       /\ flog' = Raised(sink, w.sink, flog)
       /\ spc' = IF w.res.ok THEN "flushed" ELSE "open"
    /\ UNCHANGED <<vars, ovars, call, scodec, bufsize, plain, reader, comp, dec, total,
                   lastread, input, nflush, first>>

\* writer.finish()
SW_Finish ==
    /\ call = "writer" /\ spc \in {"open", "flushed"}
    /\ LET w == StreamWriter_finish(wbuf, sink) IN
       /\ wbuf' = w.buffer
       /\ sink' = w.sink
       /\ sret' = w.res
       /\ flog' = Raised(sink, w.sink, flog)
    /\ spc' = "done"
    /\ UNCHANGED <<vars, ovars, call, scodec, bufsize, plain, reader, comp, dec, total,
                   lastread, input, nflush, first>>

WriterNext ==
    \/ /\ call = "idle"
       /\ \E buffer_size \in BufferSizes : SW_Open(buffer_size)
    \/ /\ call = "writer"
       /\ \E d \in WriterChunks : SW_WriteChunk(d)
    \/ SW_Flush
    \/ SW_Finish
    \/ /\ call = "writer"
       /\ \E kind \in FaultKinds : SinkFault(kind)

WriterSpec == Init /\ [][WriterNext]_allvars

\* the last call on the StreamWriter was a flush or a finish that returned Ok
WriterFlushedOk ==
    call = "writer" /\ (spc = "flushed" \/ (spc = "done" /\ sret.ok))

\* C19: After any sequence of write_chunk calls with chunks shorter than, as
\* long as or longer than buffer_size, once flush or finish has returned Ok
\* the underlying writer holds exactly the concatenation of the accepted
\* chunks in call order and the buffer is empty.
C19_StreamWriterPreservesContent ==
    WriterFlushedOk => (sink.bytes = plain /\ wbuf = <<>>)

\* buffer_size 2: four bytes were handed over in chunks, finish returned Ok
\* and the writer holds them in call order
C19_Witness ==
    /\ WriterFlushedOk /\ spc = "done" /\ bufsize = 2 /\ flog = NoErr
    /\ sink.bytes = <<200, 0, 0, 200>> /\ plain = sink.bytes

(***************************************************************************)
(* Further properties of the envelope                                      *)
(***************************************************************************)
KindTagKnown(b) == b \in {1, 2}
CodecTagKnown(b) == b \in {0, 1, 2}
CodecNameOfTag(b) == IF b = 0 THEN "None" ELSE CodecOfTag(b)

\* what decoding the payload of a framed input gives, the size check aside
PayloadDecoded(d) ==
    IF d[6] = 0 THEN Ok(SubSeq(d, 17, Len(d)))
    ELSE decompress(CodecNameOfTag(d[6]), SubSeq(d, 17, Len(d)))

\* C26: On a framed input unwrap_auto reports an unknown kind byte first;
\* then a kind other than expected_kind, as "unexpected envelope payload
\* kind", whatever the codec byte, the declared length and the payload are;
\* then an unknown codec byte; then a failure of decompression; the size
\* mismatch is reported only when all of these passed.
C26_HeaderCheckOrder ==
    (pc = "unwrapped" /\ LooksFramed(data)) =>
        IF ~KindTagKnown(data[5])
        THEN result = Err("unknown envelope payload kind")
        ELSE IF KindOfTag(data[5]) # expected
        THEN result = Err("unexpected envelope payload kind")
        ELSE IF ~CodecTagKnown(data[6])
        THEN result = Err("unknown envelope compression codec")
        ELSE IF ~PayloadDecoded(data).ok
        THEN result = PayloadDecoded(data) /\ result # Err("envelope size mismatch")
        ELSE result \in {PayloadDecoded(data), Err("envelope size mismatch")}

\* a frame with the other kind, an unknown codec byte and a wrong declared
\* length is refused for its kind
C26_Witness ==
    /\ pc = "unwrapped" /\ LooksFramed(data)
    /\ KindTagKnown(data[5]) /\ KindOfTag(data[5]) # expected
    /\ ~CodecTagKnown(data[6])
    /\ ~DeclaresLength(data, Len(data) - 16)
    /\ result = Err("unexpected envelope payload kind")

\* the input with its reserved bytes (offsets 6 and 7) set to zero
ZeroReserved(d) == [d EXCEPT ![7] = 0, ![8] = 0]

\* C28: For a framed input the result of unwrap_auto, Ok bytes or error, is
\* the result it gives for the same input with bytes 6 and 7 set to zero.
C28_ReservedBytesIgnored ==
    (pc = "unwrapped" /\ LooksFramed(data)) =>
        result = unwrap_auto(expected, ZeroReserved(data))

\* a valid envelope whose reserved bytes are not zero was unwrapped to its
\* payload
C28_Witness ==
    /\ pc = "unwrapped" /\ LooksFramed(data)
    /\ SubSeq(data, 7, 8) # <<0, 0>>
    /\ result.ok /\ result.val # <<>>
    /\ result = unwrap_auto(expected, ZeroReserved(data))

(***************************************************************************)
(* Further properties of the whole-stream operations                       *)
(***************************************************************************)
\* C27: stream_compress or stream_decompress called with a codec that is not
\* in the build returns the error at once: no byte has been read from the
\* reader, no byte has been written to the writer, nothing was counted.
C27_UnavailableCodecTouchesNothing ==
    (/\ call \in {"stream_compress", "stream_decompress"}
     /\ scodec \in {"Zstd", "Lz4"} /\ ~CodecEnabled(scodec))
        => /\ spc = "done" /\ ~sret.ok /\ FeatureError(sret.err)
           /\ reader = Source(input)
           /\ sink = EmptySink
           /\ total = 0

\* stream_compress of three bytes with lz4 in a build without lz4
C27_Witness ==
    /\ call = "stream_compress" /\ scodec = "Lz4" /\ ~build.lz4
    /\ Len(input) = 3 /\ bufsize > 0
    /\ spc = "done" /\ ~sret.ok
    /\ reader.data = input /\ sink.bytes = <<>>

\* a whole-stream operation has ended, its adapter was constructed and
\* neither device returned an error
WholeStreamEnded ==
    /\ call \in {"stream_compress", "stream_decompress", "copy_buffered"}
    /\ spc = "done" /\ flog = NoErr
    /\ call = "stream_compress" => comp.inner # "-"
    /\ call = "stream_decompress" => dec.inner # "-"

\* the bytes of the source that have reached the writer
Transferred ==
    IF call = "stream_compress" THEN DecodeAll(scodec, sink.bytes, FALSE).val
    ELSE sink.bytes

C30_StreamWriterConservation ==
    call = "writer" =>
        /\ sink.bytes \o wbuf = plain
        /\ Len(wbuf) <= bufsize

\* buffer_size 2: part of the accepted bytes is in the writer and the rest,
\* a full buffer, is still held back
C30_Witness ==
    /\ call = "writer" /\ spc = "open" /\ bufsize = 2 /\ sret.ok
    /\ Len(sink.bytes) = 2 /\ Len(wbuf) = 2
    /\ sink.bytes \o wbuf = plain

(***************************************************************************)
(* The whole-stream operations on their own, with the caller's thread      *)
(* running on: a call that can take its next step takes it.                *)
(***************************************************************************)
SC_Step == call = "stream_compress" /\ \E k \in ReadRequests(bufsize) : SC_Turn(k)
SC_Return == call = "stream_compress" /\ \E flushes \in BOOLEAN : SC_End(flushes)
SD_Step == call = "stream_decompress" /\ \E k \in ReadRequests(bufsize) : SD_Turn(k)
CB_Step == call = "copy_buffered" /\ \E k \in ReadRequests(bufsize) : CB_Turn(k)

WholeStreamProgress == SC_Step \/ SC_Return \/ SD_Step \/ SD_End \/ CB_Step

WholeStreamNext ==
    \/ /\ call = "idle"
       /\ \E b \in StreamInputs, codec \in CompressionCodecs,
             level \in CompressionLevels, buffer_size \in BufferSizes :
            SC_Start(b, codec, level, buffer_size)
    \/ SC_Step
    \/ SC_Return
    \/ \E buffer_size \in BufferSizes : SD_Start(buffer_size)
    \/ /\ call = "idle"
       /\ \E codec \in CompressionCodecs, buffer_size \in BufferSizes :
            \E src \in DecoderSources(codec) : SD_Fresh(src, codec, buffer_size)
    \/ SD_Step
    \/ SD_End
    \/ /\ call = "idle"
       /\ \E b \in StreamInputs, buffer_size \in BufferSizes : CB_Start(b, buffer_size)
    \/ CB_Step
    \/ \E kind \in FaultKinds : SinkFault(kind)
    \/ \E kind \in FaultKinds : SourceFault(kind)

\* the build with both codecs, where the library refuses a level out of its
\* range and takes the others, and the build with neither; a codec's path
\* does not depend on the other codec's feature
WholeStreamBuilds ==
    {[zstd |-> TRUE, lz4 |-> TRUE, strict_level |-> TRUE],
     [zstd |-> FALSE, lz4 |-> FALSE, strict_level |-> FALSE]}

WholeStreamInit == Init /\ build \in WholeStreamBuilds

WholeStreamSpec ==
    WholeStreamInit /\ [][WholeStreamNext]_allvars /\ WF_allvars(WholeStreamProgress)

WholeStreamCalled == call \in {"stream_compress", "stream_decompress", "copy_buffered"}

\* C25: A call of stream_compress, stream_decompress or copy_buffered on a
\* source that holds finitely many bytes and then signals end-of-data, or
\* fails, eventually returns, with Ok(count) or with an error.
C25_WholeStreamTerminates ==
    WholeStreamCalled ~> (WholeStreamCalled /\ spc = "done" /\ sret # NoCall)

\* copy_buffered went three times round its loop, read 0 and returned Ok(3)
C25_Witness ==
    /\ call = "copy_buffered" /\ spc = "done"
    /\ bufsize = 1 /\ Len(input) = 3 /\ sret = CallOk(3)

\* ===========================================================================
\* Part 3: chunked reads (buffer.rs).  ChunkStream and read_chunks read
\* through a BufReader whose capacity is chunk_size.max(4096).  The code
\* copies bytes and never looks at their values, so a chunk is recorded as
\* the slice [off, len] of the source it was copied from: the chunks
\* concatenate to the source exactly when the slices follow one another
\* from offset 0 and end at the length of the source.
\* ===========================================================================

\* the smallest BufReader capacity: chunk_size.max(4096)
MIN_CAPACITY == 4096

\* how many reads of the inner reader may come back short
MaxShort == 2

\* how many chunks write_chunks is given
MaxChunks == 3

\* how many times next_chunk is called again once it has returned None
MaxNone == 2

\* lengths of the sources of a ChunkStream, and the chunk sizes asked for
SourceLens == {0, 1000, 6000, 8192}
ChunkSizes == {0, 100, 3000, 4096, 5000}

\* the sizes of the chunks handed to write_chunks
WrittenChunkSizes == {0, 1024, 3000, 4096}

Max(a, b) == IF a >= b THEN a ELSE b

\* BufReader::with_capacity(chunk_size.max(4096), reader) over a source of
\* len bytes: pos is the position of the inner reader, the internal buffer
\* holds the source bytes lo .. hi-1 that were read and not yet handed out
BufReader_with_capacity(chunk_size, len) ==
    [len |-> len, pos |-> 0, lo |-> 0, hi |-> 0,
     cap |-> Max(chunk_size, MIN_CAPACITY)]

\* inner.read(buf) with a buffer of want bytes when avail bytes are left: a
\* reader returns 0 only for an empty buffer or at the end; a short read
\* returns about half of what a full read would
Inner_read(avail, want, short) ==
    LET full == Min(avail, want)
    IN IF short /\ full > 1 THEN (full + 1) \div 2 ELSE full

\* BufReader::read with the rest of the internal buffer thrown away after
\* each read
BufReader_read_discards_rest(r, want, short) ==
    LET filled == IF r.lo = r.hi
                  THEN LET m == Inner_read(r.len - r.pos, r.cap, short)
                       IN [r EXCEPT !.lo = r.pos, !.hi = r.pos + m,
                                    !.pos = r.pos + m]
                  ELSE r
        n == Min(filled.hi - filled.lo, want)
    IN [reader |-> [filled EXCEPT !.lo = filled.hi],
        off |-> filled.lo, n |-> n]

\* BufReader::read(&mut buffer) with a buffer of want bytes: with the internal
\* buffer empty and want >= capacity the read goes to the inner reader
\* directly; otherwise the internal buffer is filled by one read of the
\* inner reader if it is empty, and the bytes it holds are handed out, at
\* most want of them
BufReader_read(r, want, short) ==
    IF r.lo = r.hi /\ want >= r.cap
    THEN LET n == Inner_read(r.len - r.pos, want, short)
         IN [reader |-> [r EXCEPT !.pos = r.pos + n, !.lo = 0, !.hi = 0],
             off |-> r.pos, n |-> n]
    ELSE LET filled == IF r.lo = r.hi
                       THEN LET m == Inner_read(r.len - r.pos, r.cap, short)
                            IN [r EXCEPT !.lo = r.pos, !.hi = r.pos + m,
                                         !.pos = r.pos + m]
                       ELSE r
             n == Min(filled.hi - filled.lo, want)
         IN [reader |-> [filled EXCEPT !.lo = filled.lo + n],
             off |-> filled.lo, n |-> n]

\* the slice of the source a chunk holds
Slice(off, len) == [off |-> off, len |-> len]

\* ChunkStream::next_chunk: Ok(None) when the read returns 0, else
\* Ok(Some(buffer)) with the buffer truncated to the bytes read
ChunkStream_next_chunk(s, short) ==
    LET rd == BufReader_read(s.reader, s.chunk_size, short)
    IN IF rd.n = 0
       THEN [s EXCEPT !.reader = rd.reader, !.nones = s.nones + 1]
       ELSE [s EXCEPT !.reader = rd.reader,
                      !.out = Append(s.out, Slice(rd.off, rd.n))]

\* the loop of read_chunks over a file: a read of a file is never short;
\* the callback is called with buffer[..n] until a read returns 0
RECURSIVE read_chunks_loop(_, _, _)
read_chunks_loop(r, chunk_size, out) ==
    LET rd == BufReader_read(r, chunk_size, FALSE)
    IN IF rd.n = 0 THEN out
       ELSE read_chunks_loop(rd.reader, chunk_size,
                             Append(out, Slice(rd.off, rd.n)))

\* read_chunks(path, chunk_size, callback) over a file of len bytes: the
\* chunks the callback is called with
read_chunks(len, chunk_size) ==
    read_chunks_loop(BufReader_with_capacity(chunk_size, len), chunk_size,
                     <<>>)

\* write_chunks(path, chunks) with n chunks of s bytes: every chunk goes
\* through write_all and the writer is flushed, the file holds n * s bytes
write_chunks(n, s) == n * s

\* ChunkStream::with_chunk_size(reader, chunk_size)
CS_Open ==
    /\ cs = NoChunked
    /\ \E len \in SourceLens, chunk_size \in ChunkSizes, shorts \in 0..MaxShort :
         cs' = [on |-> TRUE, op |-> "ChunkStream", chunk_size |-> chunk_size,
                reader |-> BufReader_with_capacity(chunk_size, len),
                out |-> <<>>, nones |-> 0, shorts |-> shorts,
                n |-> 0, s |-> 0, len |-> len]
    /\ UNCHANGED <<vars, call, spc, scodec, bufsize, plain, reader, comp, dec,
                   sink, total, sret, lastread, flog, input, nflush, first,
                   wbuf, conc, prof>>

\* stream.next_chunk(), the inner reader answering in full or short
CS_NextChunk(short) ==
    /\ cs.on /\ cs.op = "ChunkStream"
    /\ cs.nones < MaxNone
    /\ short => cs.shorts > 0
    /\ cs' = [ChunkStream_next_chunk(cs, short) EXCEPT
                !.shorts = IF short THEN cs.shorts - 1 ELSE cs.shorts]
    /\ UNCHANGED <<vars, call, spc, scodec, bufsize, plain, reader, comp, dec,
                   sink, total, sret, lastread, flog, input, nflush, first,
                   wbuf, conc, prof>>

\* write_chunks(path, chunks) with n chunks of s bytes each
RC_WriteChunks ==
    /\ cs = NoChunked
    /\ \E n \in 0..MaxChunks, s \in WrittenChunkSizes :
         cs' = [on |-> TRUE, op |-> "write_chunks", chunk_size |-> 0,
                reader |-> BufReader_with_capacity(0, 0),
                out |-> <<>>, nones |-> 0, shorts |-> 0,
                n |-> n, s |-> s, len |-> write_chunks(n, s)]
    /\ UNCHANGED <<vars, call, spc, scodec, bufsize, plain, reader, comp, dec,
                   sink, total, sret, lastread, flog, input, nflush, first,
                   wbuf, conc, prof>>

\* read_chunks(path, chunk_size, callback) over the file written
RC_ReadChunks ==
    /\ cs.on /\ cs.op = "write_chunks"
    /\ \E chunk_size \in WrittenChunkSizes :
         cs' = [cs EXCEPT !.op = "read_chunks", !.chunk_size = chunk_size,
                          !.out = read_chunks(cs.len, chunk_size)]
    /\ UNCHANGED <<vars, call, spc, scodec, bufsize, plain, reader, comp, dec,
                   sink, total, sret, lastread, flog, input, nflush, first,
                   wbuf, conc, prof>>

ChunkNext ==
    \/ CS_Open
    \/ \E short \in BOOLEAN : CS_NextChunk(short)
    \/ RC_WriteChunks
    \/ RC_ReadChunks

ChunkSpec == Init /\ [][ChunkNext]_allvars

\* the slices follow one another from offset 0
RECURSIVE InOrderFrom(_, _)
InOrderFrom(out, off) ==
    IF out = <<>> THEN TRUE
    ELSE Head(out).off = off /\ InOrderFrom(Tail(out), off + Head(out).len)

\* the number of bytes in the chunks
RECURSIVE SumLen(_)
SumLen(out) == IF out = <<>> THEN 0 ELSE Head(out).len + SumLen(Tail(out))

\* the chunks returned so far are a prefix of the source, cut into pieces of
\* 1 to chunk_size bytes, and None was returned only once they are all of it
ChunksInOrder ==
    /\ \A i \in 1..Len(cs.out) :
         cs.out[i].len >= 1 /\ cs.out[i].len <= cs.chunk_size
    /\ InOrderFrom(cs.out, 0)
    /\ SumLen(cs.out) <= cs.len
    /\ cs.nones > 0 => SumLen(cs.out) = cs.len

C22_ReadChunksWholeChunks ==
    (cs.on /\ cs.op = "read_chunks" /\ cs.chunk_size = cs.s) =>
        /\ Len(cs.out) = cs.n
        /\ SumLen(cs.out) = cs.n * cs.s

\* two chunks of 3000 bytes read back with chunk size 3000: three callbacks
C22_Witness ==
    /\ cs.on /\ cs.op = "read_chunks"
    /\ cs.n = 2 /\ cs.s = 3000 /\ cs.chunk_size = 3000
    /\ cs.out = <<Slice(0, 3000), Slice(3000, 1096), Slice(4096, 1904)>>

\* ===========================================================================
\* Part 3, continued: threads writing and reading their own files
\* (serialize.rs write_bincode_file / read_bincode_file, as used by
\* test_concurrent_file_operations).
\* ===========================================================================

\* how many threads are spawned
MaxThreads == 3

\* the values the threads write (the id field of the sample data)
ThreadValues == {0, 258, 513}

\* bincode::serialize of a 16-bit value: little-endian, fixed width
to_bincode(value) == <<value % 256, value \div 256>>

\* bincode::deserialize: an error when the bytes run out, bytes after the
\* value are ignored
from_bincode(bytes) ==
    IF Len(bytes) < 2
    THEN CallErr(io_Error_other(IoError("Other", "unexpected end of file")))
    ELSE CallOk(bytes[1] + 256 * bytes[2])

\* a path that is not a file
NoFile == [exists |-> FALSE, bytes |-> <<>>]
File(bytes) == [exists |-> TRUE, bytes |-> bytes]

\* every thread given the same path
ThreadPath_shared(i) == 0

\* dir.path().join(format!("file_{}.bin", i)): the path of thread i
ThreadPath(i) == i

\* std::fs::read(path)?, then from_bincode(&bytes)
read_bincode_file(fs, path) ==
    IF fs[path].exists THEN from_bincode(fs[path].bytes)
    ELSE CallErr(IoError("NotFound", "no such file"))

\* the test spawns its threads, each with its path and its data
CF_Spawn ==
    /\ conc = NoThreads
    /\ \E datas \in [0..(MaxThreads - 1) -> ThreadValues] :
         conc' = [on |-> TRUE,
                  fs |-> [p \in 0..(MaxThreads - 1) |-> NoFile],
                  th |-> [i \in 0..(MaxThreads - 1) |->
                            [pc |-> "spawned", path |-> ThreadPath(i),
                             data |-> datas[i], loaded |-> NoCall]]]
    /\ UNCHANGED <<vars, call, spc, scodec, bufsize, plain, reader, comp, dec,
                   sink, total, sret, lastread, flog, input, nflush, first,
                   wbuf, cs, prof>>

\* write_bincode_file, first half: std::fs::write creates the file or
\* truncates it
CF_Create(i) ==
    /\ conc.on /\ conc.th[i].pc = "spawned"
    /\ conc' = [conc EXCEPT !.fs[conc.th[i].path] = File(<<>>),
                            !.th[i].pc = "created"]
    /\ UNCHANGED <<vars, call, spc, scodec, bufsize, plain, reader, comp, dec,
                   sink, total, sret, lastread, flog, input, nflush, first,
                   wbuf, cs, prof>>

\* write_bincode_file, second half: std::fs::write writes the bytes of
\* to_bincode(value) from the start of the file
CF_Write(i) ==
    /\ conc.on /\ conc.th[i].pc = "created"
    /\ LET path == conc.th[i].path
           bytes == to_bincode(conc.th[i].data)
           old == conc.fs[path].bytes
       IN conc' = [conc EXCEPT
                     !.fs[path] = File(bytes \o Drop(old, Len(bytes))),
                     !.th[i].pc = "written"]
    /\ UNCHANGED <<vars, call, spc, scodec, bufsize, plain, reader, comp, dec,
                   sink, total, sret, lastread, flog, input, nflush, first,
                   wbuf, cs, prof>>

\* let loaded = read_bincode_file(&path)
CF_Read(i) ==
    /\ conc.on /\ conc.th[i].pc = "written"
    /\ conc' = [conc EXCEPT
                  !.th[i].loaded = read_bincode_file(conc.fs, conc.th[i].path),
                  !.th[i].pc = "read"]
    /\ UNCHANGED <<vars, call, spc, scodec, bufsize, plain, reader, comp, dec,
                   sink, total, sret, lastread, flog, input, nflush, first,
                   wbuf, cs, prof>>

ThreadsNext ==
    \/ CF_Spawn
    \/ \E i \in 0..(MaxThreads - 1) : CF_Create(i)
    \/ \E i \in 0..(MaxThreads - 1) : CF_Write(i)
    \/ \E i \in 0..(MaxThreads - 1) : CF_Read(i)

ThreadsSpec == Init /\ [][ThreadsNext]_allvars

\* C23: under every interleaving of the threads, each writing a value to its
\* own file and then reading that file back, every thread reads exactly the
\* value it wrote.
C23_ThreadsDoNotInterfere ==
    conc.on =>
        \A i \in 0..(MaxThreads - 1) :
            conc.th[i].pc = "read" =>
                conc.th[i].loaded = CallOk(conc.th[i].data)

\* thread 0 has read back the value it wrote while thread 1 is in the middle
\* of its write and thread 2 has not started
C23_Witness ==
    /\ conc.on
    /\ conc.th[0].pc = "read" /\ conc.th[0].data = 258
    /\ conc.th[0].loaded = CallOk(258)
    /\ conc.th[1].pc = "created" /\ conc.th[1].data = 513
    /\ conc.th[2].pc = "spawned"

\* ===========================================================================
\* Part 3, continued: CompressionProfiler::for_path (profiles.rs).  TLA+
\* strings cannot be taken apart, so a path is the sequence of its
\* characters.
\* ===========================================================================

\* the predefined profiles: name, codec, level (<<>> is None, <<l>> is Some(l))
PROFILE_KERNEL ==
    [name |-> "Kernel", codec |-> "Zstd", level |-> <<19>>]
PROFILE_LIBRARIES ==
    [name |-> "Libraries", codec |-> "Zstd", level |-> <<9>>]
PROFILE_BINARIES ==
    [name |-> "Binaries", codec |-> "Zstd", level |-> <<6>>]
PROFILE_CONFIG ==
    [name |-> "Config", codec |-> "Lz4", level |-> <<>>]
PROFILE_RUNTIME ==
    [name |-> "Runtime", codec |-> "None", level |-> <<>>]
PROFILE_ARCHIVE ==
    [name |-> "Archive", codec |-> "Zstd", level |-> <<22>>]
PROFILE_BALANCED ==
    [name |-> "Balanced", codec |-> "Zstd", level |-> <<3>>]
PROFILE_DATABASE ==
    [name |-> "Database", codec |-> "Zstd", level |-> <<5>>]
PROFILE_MEDIA ==
    [name |-> "Media", codec |-> "None", level |-> <<>>]

\* char::to_lowercase on the ASCII letters
Uppercase ==
    <<"A", "B", "C", "D", "E", "F", "G", "H", "I", "J", "K", "L", "M",
      "N", "O", "P", "Q", "R", "S", "T", "U", "V", "W", "X", "Y", "Z">>
Lowercase ==
    <<"a", "b", "c", "d", "e", "f", "g", "h", "i", "j", "k", "l", "m",
      "n", "o", "p", "q", "r", "s", "t", "u", "v", "w", "x", "y", "z">>
char_to_lowercase(c) ==
    IF \E i \in 1..Len(Uppercase) : Uppercase[i] = c
    THEN Lowercase[CHOOSE i \in 1..Len(Uppercase) : Uppercase[i] = c]
    ELSE c

\* str::to_lowercase
to_lowercase(path) == [i \in 1..Len(path) |-> char_to_lowercase(path[i])]

\* str::starts_with, str::ends_with, str::contains
starts_with(s, pat) ==
    Len(pat) <= Len(s) /\ SubSeq(s, 1, Len(pat)) = pat
ends_with(s, pat) ==
    Len(pat) <= Len(s) /\ SubSeq(s, Len(s) - Len(pat) + 1, Len(s)) = pat
contains(s, pat) ==
    \E i \in 1..(Len(s) - Len(pat) + 1) : SubSeq(s, i, i + Len(pat) - 1) = pat

\* Boot/kernel paths (profiles.rs:224-230)
kernel_paths(path_lower) ==
    \/ starts_with(path_lower, <<"/", "b", "o", "o", "t">>)
    \/ contains(path_lower, <<"v", "m", "l", "i", "n", "u", "z">>)
    \/ contains(path_lower, <<"i", "n", "i", "t", "r">>)
    \/ ends_with(path_lower, <<".", "k", "o">>)
    \/ ends_with(path_lower, <<".", "k", "o", ".", "z", "s", "t">>)
    \/ ends_with(path_lower, <<".", "k", "o", ".", "x", "z">>)

\* Shared libraries (profiles.rs:235-240)
shared_libraries(path_lower) ==
    \/ ends_with(path_lower, <<".", "s", "o">>)
    \/ contains(path_lower, <<".", "s", "o", ".">>)
    \/ ends_with(path_lower, <<".", "d", "l", "l">>)
    \/ starts_with(path_lower, <<"/", "l", "i", "b">>)
    \/ starts_with(path_lower, <<"/", "u", "s", "r", "/", "l", "i", "b">>)

\* Executables (profiles.rs:245-250)
executables(path_lower) ==
    \/ starts_with(path_lower, <<"/", "b", "i", "n">>)
    \/ starts_with(path_lower, <<"/", "s", "b", "i", "n">>)
    \/ starts_with(path_lower, <<"/", "u", "s", "r", "/", "b", "i", "n">>)
    \/ starts_with(path_lower, <<"/", "u", "s", "r", "/", "s", "b", "i", "n">>)
    \/ starts_with(path_lower, <<"/", "u", "s", "r", "/", "l", "o", "c", "a", "l", "/", "b", "i", "n">>)

\* Configuration files (profiles.rs:255-264)
configuration_files(path_lower) ==
    \/ starts_with(path_lower, <<"/", "e", "t", "c">>)
    \/ ends_with(path_lower, <<".", "c", "o", "n", "f">>)
    \/ ends_with(path_lower, <<".", "c", "f", "g">>)
    \/ ends_with(path_lower, <<".", "i", "n", "i">>)
    \/ ends_with(path_lower, <<".", "y", "a", "m", "l">>)
    \/ ends_with(path_lower, <<".", "y", "m", "l">>)
    \/ ends_with(path_lower, <<".", "t", "o", "m", "l">>)
    \/ ends_with(path_lower, <<".", "j", "s", "o", "n">>)
    \/ ends_with(path_lower, <<".", "x", "m", "l">>)

\* Runtime/temporary (profiles.rs:269-274)
runtime_paths(path_lower) ==
    \/ starts_with(path_lower, <<"/", "t", "m", "p">>)
    \/ starts_with(path_lower, <<"/", "v", "a", "r", "/", "t", "m", "p">>)
    \/ starts_with(path_lower, <<"/", "r", "u", "n">>)
    \/ starts_with(path_lower, <<"/", "d", "e", "v", "/", "s", "h", "m">>)
    \/ contains(path_lower, <<"/", "c", "a", "c", "h", "e", "/">>)

\* Database and logs (profiles.rs:279-285)
database_and_logs(path_lower) ==
    \/ ends_with(path_lower, <<".", "d", "b">>)
    \/ ends_with(path_lower, <<".", "s", "q", "l", "i", "t", "e">>)
    \/ ends_with(path_lower, <<".", "s", "q", "l", "i", "t", "e", "3">>)
    \/ ends_with(path_lower, <<".", "l", "o", "g">>)
    \/ starts_with(path_lower, <<"/", "v", "a", "r", "/", "l", "o", "g">>)
    \/ ends_with(path_lower, <<".", "j", "o", "u", "r", "n", "a", "l">>)

\* Media files (pre-compressed, skip) (profiles.rs:290-308)
media_files(path_lower) ==
    \/ ends_with(path_lower, <<".", "j", "p", "g">>)
    \/ ends_with(path_lower, <<".", "j", "p", "e", "g">>)
    \/ ends_with(path_lower, <<".", "p", "n", "g">>)
    \/ ends_with(path_lower, <<".", "g", "i", "f">>)
    \/ ends_with(path_lower, <<".", "w", "e", "b", "p">>)
    \/ ends_with(path_lower, <<".", "m", "p", "3">>)
    \/ ends_with(path_lower, <<".", "m", "p", "4">>)
    \/ ends_with(path_lower, <<".", "m", "k", "v">>)
    \/ ends_with(path_lower, <<".", "w", "e", "b", "m">>)
    \/ ends_with(path_lower, <<".", "o", "g", "g">>)
    \/ ends_with(path_lower, <<".", "f", "l", "a", "c">>)
    \/ ends_with(path_lower, <<".", "z", "i", "p">>)
    \/ ends_with(path_lower, <<".", "g", "z">>)
    \/ ends_with(path_lower, <<".", "x", "z">>)
    \/ ends_with(path_lower, <<".", "z", "s", "t">>)
    \/ ends_with(path_lower, <<".", "b", "z", "2">>)
    \/ ends_with(path_lower, <<".", "7", "z">>)
    \/ ends_with(path_lower, <<".", "r", "a", "r">>)

\* Archive paths (profiles.rs:313-316)
archive_paths(path_lower) ==
    \/ starts_with(path_lower, <<"/", "v", "a", "r", "/", "b", "a", "c", "k", "u", "p", "s">>)
    \/ starts_with(path_lower, <<"/", "b", "a", "c", "k", "u", "p">>)
    \/ contains(path_lower, <<"/", "a", "r", "c", "h", "i", "v", "e", "/">>)

\* for_path with the shared-library rule tried before the kernel rule
for_path_libraries_first(self, path) ==
    LET path_lower == to_lowercase(path)
    IN
       IF shared_libraries(path_lower) THEN PROFILE_LIBRARIES
       ELSE IF kernel_paths(path_lower) THEN PROFILE_KERNEL
       ELSE IF executables(path_lower) THEN PROFILE_BINARIES
       ELSE IF configuration_files(path_lower) THEN PROFILE_CONFIG
       ELSE IF runtime_paths(path_lower) THEN PROFILE_RUNTIME
       ELSE IF database_and_logs(path_lower) THEN PROFILE_DATABASE
       ELSE IF media_files(path_lower) THEN PROFILE_MEDIA
       ELSE IF archive_paths(path_lower) THEN PROFILE_ARCHIVE
       ELSE self.default_profile

\* CompressionProfiler::for_path(&self, path): the rules are tried in the
\* order of the source, the first that matches returns its profile
for_path(self, path) ==
    LET path_lower == to_lowercase(path)
    IN
       IF kernel_paths(path_lower) THEN PROFILE_KERNEL
       ELSE IF shared_libraries(path_lower) THEN PROFILE_LIBRARIES
       ELSE IF executables(path_lower) THEN PROFILE_BINARIES
       ELSE IF configuration_files(path_lower) THEN PROFILE_CONFIG
       ELSE IF runtime_paths(path_lower) THEN PROFILE_RUNTIME
       ELSE IF database_and_logs(path_lower) THEN PROFILE_DATABASE
       ELSE IF media_files(path_lower) THEN PROFILE_MEDIA
       ELSE IF archive_paths(path_lower) THEN PROFILE_ARCHIVE
       ELSE self.default_profile

\* the two paths that match two rules each
LibModulesExt4Ko ==
    <<"/", "l", "i", "b", "/", "m", "o", "d", "u", "l", "e", "s", "/", "5", ".", "4", ".", "0",
      "/", "e", "x", "t", "4", ".", "k", "o">>
ArchiveBackupTarGz ==
    <<"/", "a", "r", "c", "h", "i", "v", "e", "/", "b", "a", "c", "k", "u", "p", ".", "t", "a", "r", ".", "g", "z">>

\* the paths of test_profile_selection_*
TestPaths ==
    {
      \* /boot/vmlinuz
      <<"/", "b", "o", "o", "t", "/", "v", "m", "l", "i", "n", "u", "z">>,
      \* /boot/initrd.img
      <<"/", "b", "o", "o", "t", "/", "i", "n", "i", "t", "r", "d", ".", "i", "m", "g">>,
      \* /lib/modules/5.4.0/ext4.ko
      <<"/", "l", "i", "b", "/", "m", "o", "d", "u", "l", "e", "s", "/", "5", ".", "4", ".", "0", "/", "e", "x", "t", "4", ".", "k", "o">>,
      \* /lib/x86_64-linux-gnu/libc.so.6
      <<"/", "l", "i", "b", "/", "x", "8", "6", "_", "6", "4", "-", "l", "i", "n", "u", "x", "-", "g", "n", "u", "/", "l", "i", "b", "c", ".", "s", "o", ".", "6">>,
      \* /usr/lib/libssl.so.3
      <<"/", "u", "s", "r", "/", "l", "i", "b", "/", "l", "i", "b", "s", "s", "l", ".", "s", "o", ".", "3">>,
      \* /bin/bash
      <<"/", "b", "i", "n", "/", "b", "a", "s", "h">>,
      \* /usr/bin/python3
      <<"/", "u", "s", "r", "/", "b", "i", "n", "/", "p", "y", "t", "h", "o", "n", "3">>,
      \* /sbin/init
      <<"/", "s", "b", "i", "n", "/", "i", "n", "i", "t">>,
      \* /etc/passwd
      <<"/", "e", "t", "c", "/", "p", "a", "s", "s", "w", "d">>,
      \* /etc/nginx/nginx.conf
      <<"/", "e", "t", "c", "/", "n", "g", "i", "n", "x", "/", "n", "g", "i", "n", "x", ".", "c", "o", "n", "f">>,
      \* /app/config.yaml
      <<"/", "a", "p", "p", "/", "c", "o", "n", "f", "i", "g", ".", "y", "a", "m", "l">>,
      \* /tmp/session.sock
      <<"/", "t", "m", "p", "/", "s", "e", "s", "s", "i", "o", "n", ".", "s", "o", "c", "k">>,
      \* /run/systemd/notify
      <<"/", "r", "u", "n", "/", "s", "y", "s", "t", "e", "m", "d", "/", "n", "o", "t", "i", "f", "y">>,
      \* /home/user/photo.jpg
      <<"/", "h", "o", "m", "e", "/", "u", "s", "e", "r", "/", "p", "h", "o", "t", "o", ".", "j", "p", "g">>,
      \* /var/data/video.mp4
      <<"/", "v", "a", "r", "/", "d", "a", "t", "a", "/", "v", "i", "d", "e", "o", ".", "m", "p", "4">>,
      \* /archive/backup.tar.gz
      <<"/", "a", "r", "c", "h", "i", "v", "e", "/", "b", "a", "c", "k", "u", "p", ".", "t", "a", "r", ".", "g", "z">>
    }

\* directories and file names paths are put together from
PathDirs ==
    {
      \* (empty)
      <<>>,
      \* /boot
      <<"/", "b", "o", "o", "t">>,
      \* /lib
      <<"/", "l", "i", "b">>,
      \* /usr/lib
      <<"/", "u", "s", "r", "/", "l", "i", "b">>,
      \* /bin
      <<"/", "b", "i", "n">>,
      \* /usr/local/bin
      <<"/", "u", "s", "r", "/", "l", "o", "c", "a", "l", "/", "b", "i", "n">>,
      \* /etc
      <<"/", "e", "t", "c">>,
      \* /tmp
      <<"/", "t", "m", "p">>,
      \* /dev/shm
      <<"/", "d", "e", "v", "/", "s", "h", "m">>,
      \* /var/log
      <<"/", "v", "a", "r", "/", "l", "o", "g">>,
      \* /var/backups
      <<"/", "v", "a", "r", "/", "b", "a", "c", "k", "u", "p", "s">>,
      \* /backup
      <<"/", "b", "a", "c", "k", "u", "p">>,
      \* /home
      <<"/", "h", "o", "m", "e">>,
      \* /HOME/Cache
      <<"/", "H", "O", "M", "E", "/", "C", "a", "c", "h", "e">>,
      \* /srv/archive
      <<"/", "s", "r", "v", "/", "a", "r", "c", "h", "i", "v", "e">>,
      \* /ETC
      <<"/", "E", "T", "C">>,
      \* /opt
      <<"/", "o", "p", "t">>
    }

\* file names
PathNames ==
    {
      \* /f
      <<"/", "f">>,
      \* /F.KO
      <<"/", "F", ".", "K", "O">>,
      \* /f.ko.xz
      <<"/", "f", ".", "k", "o", ".", "x", "z">>,
      \* /libf.so
      <<"/", "l", "i", "b", "f", ".", "s", "o">>,
      \* /libf.so.1
      <<"/", "l", "i", "b", "f", ".", "s", "o", ".", "1">>,
      \* /f.dll
      <<"/", "f", ".", "d", "l", "l">>,
      \* /F.Conf
      <<"/", "F", ".", "C", "o", "n", "f">>,
      \* /f.json
      <<"/", "f", ".", "j", "s", "o", "n">>,
      \* /f.db
      <<"/", "f", ".", "d", "b">>,
      \* /f.log
      <<"/", "f", ".", "l", "o", "g">>,
      \* /f.PNG
      <<"/", "f", ".", "P", "N", "G">>,
      \* /f.zst
      <<"/", "f", ".", "z", "s", "t">>,
      \* /vmlinuz-6
      <<"/", "v", "m", "l", "i", "n", "u", "z", "-", "6">>,
      \* /f.txt
      <<"/", "f", ".", "t", "x", "t">>
    }

Paths == TestPaths \cup {dir \o name : dir \in PathDirs, name \in PathNames}

\* CompressionProfiler::default() and CompressionProfiler::with_default
CompressionProfiler_default == [default_profile |-> PROFILE_BALANCED]
CompressionProfiler_with_default(default) == [default_profile |-> default]

Profilers ==
    {CompressionProfiler_default,
     CompressionProfiler_with_default(PROFILE_ARCHIVE),
     CompressionProfiler_with_default(PROFILE_RUNTIME)}

\* a profiler is constructed
PF_New ==
    /\ prof = NoProfile
    /\ \E self \in Profilers :
         prof' = [on |-> TRUE, self |-> self, called |-> FALSE,
                  path |-> <<>>, ret |-> self.default_profile]
    /\ UNCHANGED <<vars, call, spc, scodec, bufsize, plain, reader, comp, dec,
                   sink, total, sret, lastread, flog, input, nflush, first,
                   wbuf, cs, conc>>

\* profiler.for_path(path); for_path takes &self and changes nothing, so
\* one call on each profiler shows every result
PF_ForPath ==
    /\ prof.on /\ ~prof.called
    /\ \E path \in Paths :
         prof' = [prof EXCEPT !.called = TRUE, !.path = path,
                              !.ret = for_path(prof.self, path)]
    /\ UNCHANGED <<vars, call, spc, scodec, bufsize, plain, reader, comp, dec,
                   sink, total, sret, lastread, flog, input, nflush, first,
                   wbuf, cs, conc>>

ProfileNext ==
    \/ PF_New
    \/ PF_ForPath

ProfileSpec == Init /\ [][ProfileNext]_allvars

\* which rules match the lower-cased path, in the order Kernel, Libraries,
\* Binaries, Config, Runtime, Database, Media, Archive
RuleMatches(path) ==
    LET path_lower == to_lowercase(path)
    IN <<kernel_paths(path_lower), shared_libraries(path_lower),
         executables(path_lower), configuration_files(path_lower),
         runtime_paths(path_lower), database_and_logs(path_lower),
         media_files(path_lower), archive_paths(path_lower)>>

RuleProfiles ==
    <<PROFILE_KERNEL, PROFILE_LIBRARIES, PROFILE_BINARIES, PROFILE_CONFIG,
      PROFILE_RUNTIME, PROFILE_DATABASE, PROFILE_MEDIA, PROFILE_ARCHIVE>>

\* the profile of the first rule that matches, the default when none does
FirstMatch(path, default) ==
    LET m == RuleMatches(path)
        hits == {i \in 1..Len(m) : m[i]}
    IN IF hits = {} THEN default
       ELSE RuleProfiles[CHOOSE i \in hits : \A j \in hits : i <= j]

\* C24: for_path returns the profile of the first rule, in the order Kernel,
\* Libraries, Binaries, Config, Runtime, Database, Media, Archive, that
\* matches the lower-cased path, and the profiler's default_profile when no
\* rule matches; "/lib/modules/5.4.0/ext4.ko" (Kernel and Libraries) yields
\* Kernel and "/archive/backup.tar.gz" (Media and Archive) yields Media.
C24_ForPathFirstMatch ==
    (prof.on /\ prof.called) =>
        /\ prof.ret = FirstMatch(prof.path, prof.self.default_profile)
        /\ prof.path = LibModulesExt4Ko => prof.ret = PROFILE_KERNEL
        /\ prof.path = ArchiveBackupTarGz => prof.ret = PROFILE_MEDIA

\* for_path("/lib/modules/5.4.0/ext4.ko") returned Kernel although the
\* Libraries rule matches too
C24_Witness ==
    /\ prof.on /\ prof.called
    /\ prof.path = LibModulesExt4Ko
    /\ RuleMatches(prof.path)[1] /\ RuleMatches(prof.path)[2]
    /\ prof.ret = PROFILE_KERNEL

============================================================================
